---- MODULE Spec2Model ----
(***************************************************************************)
(* Task manager backend (Express + Mongoose): the request pipeline of the  *)
(* task routes (rate limiter, protect, Joi validation, task controller),   *)
(* the Task model's hooks and methods, and the statistics arithmetic.      *)
(***************************************************************************)
EXTENDS Integers, Sequences, FiniteSets, TLC

(***************************************************************************)
(* IEEE-754 double arithmetic of                                           *)
(*     Math.round((completedTasks / totalTasks) * 100)                     *)
(* A double's significand is kept as a sequence of bits, most significant  *)
(* first, so that no intermediate value exceeds the integer range.         *)
(***************************************************************************)
MantissaBits == 53

RECURSIVE Pow2(_)
Pow2(n) == IF n = 0 THEN 1 ELSE 2 * Pow2(n - 1)

\* value of a short bit sequence (most significant bit first)
RECURSIVE BitsToNat(_)
BitsToNat(bits) ==
    IF bits = <<>> THEN 0
    ELSE 2 * BitsToNat(SubSeq(bits, 1, Len(bits) - 1)) + bits[Len(bits)]

\* add one to a bit sequence; the result is one bit longer on carry out
IncBits(bits) ==
    LET n     == Len(bits)
        zeros == {i \in 1..n : bits[i] = 0}
    IN  IF zeros = {} THEN [i \in 1..(n + 1) |-> IF i = 1 THEN 1 ELSE 0]
        ELSE LET p == CHOOSE i \in zeros : \A j \in zeros : j <= i
             IN  [i \in 1..n |-> IF i < p THEN bits[i] ELSE IF i = p THEN 1 ELSE 0]

\* TRUE iff some bit of the sequence is set
AnyBit(bits) == \E i \in 1..Len(bits) : bits[i] = 1

\* round-to-nearest-even of an exact bit string to MantissaBits bits;
\* sticky tells whether non-zero digits follow the string.
\* Result: [bits, shift] with value = bits * 2^shift relative to the input's
\* least significant position.
RoundToDouble(bits, sticky) ==
    IF Len(bits) <= MantissaBits
    THEN [bits |-> bits, shift |-> 0]
    ELSE LET keep  == SubSeq(bits, 1, MantissaBits)
             guard == bits[MantissaBits + 1]
             rest  == sticky \/ AnyBit(SubSeq(bits, MantissaBits + 2, Len(bits)))
             up    == guard = 1 /\ (rest \/ keep[MantissaBits] = 1)
             dropped == Len(bits) - MantissaBits
         IN  IF ~up THEN [bits |-> keep, shift |-> dropped]
             ELSE LET inc == IncBits(keep)
                  IN  IF Len(inc) = MantissaBits
                      THEN [bits |-> inc, shift |-> dropped]
                      ELSE [bits |-> SubSeq(inc, 1, MantissaBits),
                            shift |-> dropped + 1]

\* 2^j modulo m, by repeated squaring
RECURSIVE Pow2Mod(_, _)
Pow2Mod(j, m) ==
    IF j = 0 THEN 1 % m
    ELSE LET h == Pow2Mod(j \div 2, m)
         IN  (h * h * (IF j % 2 = 1 THEN 2 ELSE 1)) % m

\* the first n binary digits of r/t for t <= r < 2t (the first digit is the
\* units digit), with the remainder left after them: digit i is
\* floor(r * 2^(i-1) / t) mod 2
DivDigits(r, t, n) ==
    [bits |-> [i \in 1..n |->
                  IF ((r % (2 * t)) * Pow2Mod(i - 1, 2 * t)) % (2 * t) >= t
                  THEN 1 ELSE 0],
     rem  |-> ((r % t) * Pow2Mod(n - 1, t)) % t]

\* smallest e with c * 2^e >= t   (0 < c <= t)
RECURSIVE NormShift(_, _)
NormShift(c, t) == IF c >= t THEN 0 ELSE 1 + NormShift(2 * c, t)

\* the double nearest to c/t, as [bits, exp]: value = bits * 2^exp
DoubleDiv(c, t) ==
    LET e   == NormShift(c, t)
        d   == DivDigits(c * Pow2(e), t, MantissaBits + 1)
        rnd == RoundToDouble(d.bits, d.rem # 0)
    IN  [bits |-> rnd.bits, exp |-> rnd.shift - (MantissaBits + 1) + 1 - e]

\* bits * k for a small positive k, exact, as a bit sequence; the product is
\* formed limb by limb (LimbBits binary digits per limb, least significant
\* limb last) with a carry
LimbBits == 9

NumLimbs(bits) == (Len(bits) + LimbBits - 1) \div LimbBits

\* limb j (1 = most significant) of a bit sequence padded on the left
Limb(bits, j) ==
    LET pad == NumLimbs(bits) * LimbBits - Len(bits)
        at(i) == IF i <= pad THEN 0 ELSE bits[i - pad]
    IN  BitsToNat([i \in 1..LimbBits |-> at((j - 1) * LimbBits + i)])

RECURSIVE MulLimbs(_, _, _, _)
MulLimbs(bits, k, j, carry) ==
    IF j = 0 THEN <<carry>>
    ELSE LET v == Limb(bits, j) * k + carry
         IN  Append(MulLimbs(bits, k, j - 1, v \div Pow2(LimbBits)),
                    v % Pow2(LimbBits))

MulSmall(bits, k) ==
    LET limbs == MulLimbs(bits, k, NumLimbs(bits), 0)
        n     == Len(limbs) * LimbBits
        all   == [i \in 1..n |->
                    (limbs[((i - 1) \div LimbBits) + 1]
                        \div Pow2(LimbBits - 1 - ((i - 1) % LimbBits))) % 2]
        first == CHOOSE i \in 1..n : all[i] = 1 /\ \A h \in 1..(i - 1) : all[h] = 0
    IN  SubSeq(all, first, n)

\* the double nearest to x * k
DoubleMulSmall(x, k) ==
    LET p   == MulSmall(x.bits, k)
        rnd == RoundToDouble(p, FALSE)
    IN  [bits |-> rnd.bits, exp |-> x.exp + rnd.shift]

\* Math.round of a positive double below 2^30: nearest integer, ties up
MathRound(x) ==
    LET k == Len(x.bits) + x.exp   \* number of integer digits
    IN  IF k < 0 THEN 0
        ELSE IF k >= Len(x.bits) THEN BitsToNat(x.bits) * Pow2(k - Len(x.bits))
        ELSE BitsToNat(SubSeq(x.bits, 1, k)) + x.bits[k + 1]

\* totalTasks > 0 ? Math.round((completedTasks / totalTasks) * 100) : 0
\* (0 / totalTasks is the double 0, and Math.round(0 * 100) = 0)
CompletionRate(completedTasks, totalTasks) ==
    IF totalTasks > 0
    THEN IF completedTasks = 0 THEN 0
         ELSE MathRound(DoubleMulSmall(DoubleDiv(completedTasks, totalTasks), 100))
    ELSE 0

(***************************************************************************)
(* Bounds of the model                                                     *)
(***************************************************************************)
MaxTasks     == 1    \* tasks ever created on a growing store
MaxListed    == 2    \* tasks of a store that is listed
MaxTime      == 1    \* clock value at which a stored collection is listed
MaxTokens    == 2    \* tokens that are ever issued
RateLimitMax == 1    \* RATE_LIMIT_MAX_REQUESTS (requests per window and IP)
TokenTTL     == 2    \* JWT_EXPIRE, in clock ticks
MaxCount     == 40   \* largest task count of the statistics arithmetic
MaxInflight  == 2    \* requests that are in progress at the same time
MaxRequests  == 3    \* requests of the browser that await their response

(***************************************************************************)
(* Values                                                                  *)
(***************************************************************************)
Users     == {"u1", "u2"}
NoUser    == "nobody"
Passwords == {"p1", "p2"}
TaskIds   == 1..MaxTasks
MalformedId == -3    \* an :id that is not a 24-digit hexadecimal ObjectId

NullDate   == -1     \* a Date field holding null
AbsentDate == -2     \* a date key that the request does not carry
Absent     == "absent"  \* a key that the request does not carry (undefined)

\* JavaScript booleans and the strings "true"/"false" are different values:
\* "b:..." is a boolean, "s:..." a string
JsTrue   == "b:true"
JsFalse  == "b:false"
StrTrue  == "s:true"
StrFalse == "s:false"

NoTask ==
    [id |-> 0, user |-> NoUser, status |-> "none", completedAt |-> NullDate,
     priority |-> "none", isImportant |-> FALSE, dueDate |-> NullDate,
     createdAt |-> NullDate, updatedAt |-> NullDate]

\* a request body or query string: the keys the schemas know
NoInput ==
    [title |-> Absent, status |-> Absent, priority |-> Absent,
     isImportant |-> Absent, dueDate |-> AbsentDate,
     completedAt |-> AbsentDate, user |-> Absent,
     name |-> Absent, email |-> Absent, password |-> Absent,
     newPassword |-> Absent]

NoToken == [sub |-> NoUser, iat |-> 0, sig |-> "none"]

NoStats ==
    [total |-> -1, completed |-> -1, pending |-> -1, important |-> -1,
     overdue |-> -1, completionRate |-> -1, high |-> -1, medium |-> -1,
     low |-> -1]

NoCounts == [completed |-> -1, total |-> -1]

\* a user object as a request or a response carries it; password is Absent
\* when the object has no password field
NoProfile == [id |-> NoUser, password |-> Absent]

\* the response to the latest request, with what the request carried
NoResp ==
    [op |-> "none", token |-> NoToken, id |-> 0, input |-> NoInput,
     stages |-> <<>>, status |-> 0, message |-> "", errors |-> {},
     caller |-> NoUser, before |-> NoTask, task |-> NoTask, list |-> <<>>,
     count |-> -1, stats |-> NoStats, grant |-> NoToken,
     reqUser |-> NoProfile, profile |-> NoProfile]

VARIABLES
    users,    \* User collection: id -> [state, password]
    issued,   \* tokens signed by the server so far
    tasks,    \* Task collection, by id: task document, or NoTask once deleted
    now,      \* clock
    hits,     \* rate limiter: requests counted in the current window
    counts,   \* countDocuments results handed to the statistics arithmetic
    last,     \* latest response
    inflight, \* handlers that run concurrently: slot -> position and locals
    client    \* the browser: localStorage, location, React state, requests

vars == <<users, issued, tasks, now, hits, counts, last, inflight, client>>

(***************************************************************************)
(* Handlers in progress.  A handler that awaits the store more than once   *)
(* runs in steps, and the steps of several requests interleave.            *)
(***************************************************************************)
Slots == 1..MaxInflight

\* a slot: the request, the position of its handler (pc), what the handler
\* holds in local variables, the store writes it made, and its response;
\* began and alone record the Task collection at the arrival of the request
\* and whether no other handler was running then
NoFlight ==
    [op |-> "none", pc |-> "idle", caller |-> NoUser, id |-> 0,
     input |-> NoInput, existed |-> FALSE, doc |-> NoTask, stats |-> NoStats,
     list |-> <<>>, writes |-> 0, status |-> 0, message |-> "",
     task |-> NoTask, grant |-> NoToken, profile |-> NoProfile,
     began |-> <<>>, alone |-> FALSE]

NoneInFlight == [s \in Slots |-> NoFlight]

\* the browser before the application is loaded: localStorage (lsToken,
\* lsUser), api.defaults.headers.common.Authorization (header), the state of
\* AuthProvider (isAuthenticated) and of TaskProvider (isLoading, hasTasks:
\* tasks.length > 0), the timer of the App effect with the isLoading its
\* getTasks closure holds, the requests awaiting a response, whether a
\* navigation to /login has been started, the token of the request that was
\* answered 401 since the page was loaded, and the status received last
NoClient ==
    [location |-> "none", lsToken |-> NoToken, lsUser |-> NoUser,
     header |-> NoToken, isAuthenticated |-> FALSE, isLoading |-> FALSE,
     mounted |-> FALSE, user |-> NoUser, token |-> NoToken,
     authIsLoading |-> TRUE, tasks |-> <<>>, stats |-> NoStats,
     hasTasks |-> FALSE, timer |-> "none", requests |-> <<>>,
     navigating |-> FALSE, rejected |-> NoToken, status |-> 0]

(***************************************************************************)
(* server.js: express-rate-limit mounted on /api/.  A request is counted,  *)
(* then refused with 429 when the count exceeds max.                       *)
(***************************************************************************)
RateLimit(h) ==
    LET counted == IF h <= RateLimitMax THEN h + 1 ELSE h
    IN  [hits |-> counted, blocked |-> counted > RateLimitMax]

(***************************************************************************)
(* models/User.js: the password field                                      *)
(***************************************************************************)
\* pre('save'): bcrypt.hash of a modified password
Hash(pw) == "hash:" \o pw

\* faulty variant: the password is hashed on every save
userPreSave_always(doc, passwordModified) == [doc EXCEPT !.password = Hash(@)]

\* userSchema.pre('save'): the password is hashed only when
\* this.isModified('password'); otherwise the stored hash is kept
userPreSave(doc, passwordModified) ==
    IF passwordModified THEN [doc EXCEPT !.password = Hash(@)] ELSE doc

\* faulty variant: every password is taken for the stored one
matchPassword_anyPassword(entered, stored) == TRUE

\* methods.matchPassword: bcrypt.compare(enteredPassword, this.password)
matchPassword(entered, stored) == stored = Hash(entered)

\* a user document as a query returns it: password has select: false, so it is
\* in the result only when the query asks for it
findUser(us, u, withPassword) ==
    [id |-> u, password |-> IF withPassword THEN us[u].password ELSE Absent]

\* faulty variant: the password field stays in the profile
getPublicProfile_keepsPassword(userObject) == userObject

\* methods.getPublicProfile: toObject() without the password
getPublicProfile(userObject) == [userObject EXCEPT !.password = Absent]

(***************************************************************************)
(* middleware/auth.js: protect                                             *)
(***************************************************************************)
\* faulty variant: a token counts as expired one tick before its expiry
JwtVerify_earlyExpiry(token, t) ==
    IF token.sig # "good" THEN "JsonWebTokenError"
    ELSE IF t + 1 >= token.iat + TokenTTL THEN "TokenExpiredError"
    ELSE "ok"

\* jwt.verify: signature first, then expiry (exp = iat + expiresIn)
JwtVerify(token, t) ==
    IF token.sig # "good" THEN "JsonWebTokenError"
    ELSE IF t >= token.iat + TokenTTL THEN "TokenExpiredError"
    ELSE "ok"

\* faulty variant: isActive is not looked at
protect_ignoreActive(token, t, us) ==
    IF token.sig = "none"
    THEN [ok |-> FALSE, user |-> NoUser, doc |-> NoProfile,
          message |-> "Not authorized to access this route. No token provided."]
    ELSE IF JwtVerify(token, t) = "JsonWebTokenError"
    THEN [ok |-> FALSE, user |-> NoUser, doc |-> NoProfile,
          message |-> "Invalid token. Please log in again."]
    ELSE IF JwtVerify(token, t) = "TokenExpiredError"
    THEN [ok |-> FALSE, user |-> NoUser, doc |-> NoProfile,
          message |-> "Token expired. Please log in again."]
    ELSE IF token.sub \notin Users \/ us[token.sub].state \notin {"active", "inactive"}
    THEN [ok |-> FALSE, user |-> NoUser, doc |-> NoProfile,
          message |-> "User not found with this token."]
    ELSE [ok |-> TRUE, user |-> token.sub, message |-> "",
          doc |-> findUser(us, token.sub, FALSE)]

protect(token, t, us) ==
    IF token.sig = "none"
    THEN [ok |-> FALSE, user |-> NoUser, doc |-> NoProfile,
          message |-> "Not authorized to access this route. No token provided."]
    ELSE IF JwtVerify(token, t) = "JsonWebTokenError"
    THEN [ok |-> FALSE, user |-> NoUser, doc |-> NoProfile,
          message |-> "Invalid token. Please log in again."]
    ELSE IF JwtVerify(token, t) = "TokenExpiredError"
    THEN [ok |-> FALSE, user |-> NoUser, doc |-> NoProfile,
          message |-> "Token expired. Please log in again."]
    ELSE IF token.sub \notin Users \/ us[token.sub].state \notin {"active", "inactive"}
    THEN [ok |-> FALSE, user |-> NoUser, doc |-> NoProfile,
          message |-> "User not found with this token."]
    ELSE IF us[token.sub].state # "active"
    THEN [ok |-> FALSE, user |-> NoUser, doc |-> NoProfile,
          message |-> "User account is deactivated."]
    ELSE [ok |-> TRUE, user |-> token.sub, message |-> "",
          doc |-> findUser(us, token.sub, FALSE)]

(***************************************************************************)
(* utils/validation.js: Joi schemas, validated with abortEarly: false and  *)
(* stripUnknown: true; the validated value replaces req.body / req.query.  *)
(***************************************************************************)
Priorities == {"low", "medium", "high"}
Statuses   == {"pending", "completed"}

\* Joi.boolean() accepts booleans and, converting, the strings "true"/"false"
IsJoiBoolean(v) == v \in {JsTrue, JsFalse, StrTrue, StrFalse}
JoiBoolean(v) ==
    IF v = StrTrue THEN JsTrue ELSE IF v = StrFalse THEN JsFalse ELSE v

PriorityErrors(v) ==
    IF v \in Priorities \cup {Absent} THEN {}
    ELSE {"Priority must be low, medium, or high"}

StatusErrors(v) ==
    IF v \in Statuses \cup {Absent} THEN {}
    ELSE {"Status must be pending or completed"}

BooleanErrors(v) ==
    IF v = Absent \/ IsJoiBoolean(v) THEN {} ELSE {"\"isImportant\" must be a boolean"}

\* Joi.string().email(): the strings that have the form of an address.  "u1"
\* stands for u1@x.com, "U1" for the same address in capitals.
EmailStrings == {"u1", "u2", "U1", "U2"}

\* String.prototype.toLowerCase on these strings
ToLower(email) ==
    IF email = "U1" THEN "u1" ELSE IF email = "U2" THEN "u2" ELSE email

\* passwords of fewer than six characters
ShortPasswords == {"pw"}
\* names of fewer than two characters
ShortNames == {"A"}

registerSchema(body) ==
    [errors |->
        (IF body.name = Absent THEN {"Name is required"}
         ELSE IF body.name = "" THEN {"Name cannot be empty"}
         ELSE IF body.name \in ShortNames
         THEN {"Name must be at least 2 characters long"} ELSE {})
        \cup (IF body.email = Absent THEN {"Email is required"}
              ELSE IF body.email = "" THEN {"Email cannot be empty"}
              ELSE IF body.email \notin EmailStrings
              THEN {"Please provide a valid email address"} ELSE {})
        \cup (IF body.password = Absent THEN {"Password is required"}
              ELSE IF body.password = "" THEN {"Password cannot be empty"}
              ELSE IF body.password \in ShortPasswords
              THEN {"Password must be at least 6 characters long"} ELSE {}),
     value |->
        [NoInput EXCEPT
         !.name = body.name, !.email = body.email, !.password = body.password]]

loginSchema(body) ==
    [errors |->
        (IF body.email = Absent THEN {"Email is required"}
         ELSE IF body.email = "" THEN {"Email cannot be empty"}
         ELSE IF body.email \notin EmailStrings
         THEN {"Please provide a valid email address"} ELSE {})
        \cup (IF body.password = Absent THEN {"Password is required"}
              ELSE IF body.password = "" THEN {"Password cannot be empty"}
              ELSE {}),
     value |->
        [NoInput EXCEPT !.email = body.email, !.password = body.password]]

createTaskSchema(body, t) ==
    [errors |->
        (IF body.title = Absent THEN {"Task title is required"}
         ELSE IF body.title = "" THEN {"Task title cannot be empty"} ELSE {})
        \cup PriorityErrors(body.priority)
        \cup (IF body.dueDate \notin {AbsentDate, NullDate} /\ body.dueDate <= t
              THEN {"Due date must be in the future"} ELSE {})
        \cup BooleanErrors(body.isImportant),
     value |->
        [NoInput EXCEPT
         !.title       = body.title,
         !.status      = Absent,     \* not a key of the schema: stripped
         !.priority    = IF body.priority = Absent THEN "medium" ELSE body.priority,
         !.isImportant = IF body.isImportant = Absent THEN JsFalse
                         ELSE JoiBoolean(body.isImportant),
         !.dueDate     = body.dueDate]]

\* faulty variant: keys the schema does not know are kept (no stripUnknown)
updateTaskSchema_keepsUnknown(body) ==
    [errors |->
        (IF body.title = "" THEN {"Task title cannot be empty"} ELSE {})
        \cup StatusErrors(body.status)
        \cup PriorityErrors(body.priority)
        \cup BooleanErrors(body.isImportant),
     value |-> [body EXCEPT !.isImportant = JoiBoolean(body.isImportant)]]

updateTaskSchema(body) ==
    [errors |->
        (IF body.title = "" THEN {"Task title cannot be empty"} ELSE {})
        \cup StatusErrors(body.status)
        \cup PriorityErrors(body.priority)
        \cup BooleanErrors(body.isImportant),
     value |->
        [NoInput EXCEPT
         !.title       = body.title,
         !.status      = body.status,
         !.priority    = body.priority,
         !.isImportant = JoiBoolean(body.isImportant),
         !.dueDate     = body.dueDate]]

taskFilterSchema(query) ==
    [errors |->
        StatusErrors(query.status)
        \cup PriorityErrors(query.priority)
        \cup BooleanErrors(query.isImportant),
     value |->
        [NoInput EXCEPT     \* keys the schema does not know are stripped
         !.status      = query.status,
         !.priority    = query.priority,
         !.isImportant = JoiBoolean(query.isImportant)]]

\* routes/tasks.js: the routes that mount validateRequest / validateQuery
HasSchema(op) == op \in {"getTasks", "createTask", "updateTask"}

\* faulty variant: abortEarly, only one of the violations is reported
validateRequest_abortEarly(op, input, t) ==
    LET checked ==
            CASE op = "createTask" -> createTaskSchema(input, t)
              [] op = "updateTask" -> updateTaskSchema(input)
              [] op = "getTasks"   -> taskFilterSchema(input)
              [] op = "register"   -> registerSchema(input)
              [] op = "login"      -> loginSchema(input)
              [] OTHER             -> [errors |-> {}, value |-> input]
    IN  [checked EXCEPT
            !.errors = IF @ = {} THEN {} ELSE {CHOOSE e \in @ : TRUE}]

validateRequest(op, input, t) ==
    CASE op = "createTask" -> createTaskSchema(input, t)
      [] op = "updateTask" -> updateTaskSchema(input)
      [] op = "getTasks"   -> taskFilterSchema(input)
      [] op = "register"   -> registerSchema(input)
      [] op = "login"      -> loginSchema(input)
      [] OTHER             -> [errors |-> {}, value |-> input]

ValidationMessage(op) ==
    IF op = "getTasks" THEN "Invalid query parameters" ELSE "Validation failed"

(***************************************************************************)
(* Task model (taskSchema): hooks and instance methods                     *)
(***************************************************************************)
findById(ts, id) == IF id \in DOMAIN ts THEN ts[id] ELSE NoTask

\* Task.findById(id) rejects with a CastError when id cannot be cast to ObjectId
CastFails(id) == id = MalformedId

\* pre('save'): statusModified is this.isModified('status')
preSave(doc, statusModified, t) ==
    LET stamped == IF statusModified /\ doc.status = "completed"
                      /\ doc.completedAt = NullDate
                   THEN [doc EXCEPT !.completedAt = t] ELSE doc
    IN  IF statusModified /\ stamped.status = "pending"
        THEN [stamped EXCEPT !.completedAt = NullDate] ELSE stamped

\* faulty variant: the status is set to completed instead of being flipped
toggleStatus_noFlip(doc, t) ==
    preSave([doc EXCEPT !.status = "completed", !.completedAt = t,
                        !.updatedAt = t], TRUE, t)

\* methods.toggleStatus, up to and including this.save()
toggleStatus(doc, t) ==
    LET flipped == IF doc.status = "pending" THEN "completed" ELSE "pending"
        set     == [doc EXCEPT !.status = flipped,
                               !.completedAt = IF flipped = "completed"
                                               THEN t ELSE NullDate,
                               !.updatedAt = t]
    IN  preSave(set, TRUE, t)

\* faulty variant: the flag is set instead of being negated
toggleImportant_setsTrue(doc, t) ==
    preSave([doc EXCEPT !.isImportant = TRUE, !.updatedAt = t], FALSE, t)

\* methods.toggleImportant, up to and including this.save(); timestamps: true
\* makes every save of a changed document set updatedAt
toggleImportant(doc, t) ==
    preSave([doc EXCEPT !.isImportant = ~doc.isImportant, !.updatedAt = t],
            FALSE, t)

\* the String setter of a trim: true path, on the strings of the model
BlankStrings == {"", " "}
Trim(str) == IF str \in BlankStrings THEN "" ELSE str

\* the validators that Task.create runs on taskData: title is trimmed and
\* required; status is one of the enum
TaskValidationFails(body) ==
    \/ body.title = Absent
    \/ Trim(body.title) = ""
    \/ body.status \notin {Absent, "pending", "completed"}

\* Task.create(taskData), taskData = {...req.body, user: req.user.id}: the keys
\* of the body, schema defaults for the others, then the save hook
TaskCreate(id, caller, body, t) ==
    preSave([id          |-> id,
             user        |-> caller,
             status      |-> IF body.status = Absent THEN "pending" ELSE body.status,
             completedAt |-> IF body.completedAt = AbsentDate THEN NullDate
                             ELSE body.completedAt,
             priority    |-> IF body.priority = Absent THEN "medium" ELSE body.priority,
             isImportant |-> body.isImportant = JsTrue,
             dueDate     |-> IF body.dueDate = AbsentDate THEN NullDate ELSE body.dueDate,
             createdAt   |-> t,
             updatedAt   |-> t],
            body.status # Absent, t)

\* Task.findByIdAndUpdate(id, body, {new: true, runValidators: true}): the keys
\* of the body are $set on the stored document, and updatedAt with them; no
\* save hook runs
findByIdAndUpdate(doc, body, t) ==
    [doc EXCEPT
        !.updatedAt   = t,
        !.user        = IF body.user = Absent THEN @ ELSE body.user,
        !.status      = IF body.status = Absent THEN @ ELSE body.status,
        !.priority    = IF body.priority = Absent THEN @ ELSE body.priority,
        !.isImportant = IF body.isImportant = Absent THEN @
                        ELSE body.isImportant = JsTrue,
        !.dueDate     = IF body.dueDate = AbsentDate THEN @ ELSE body.dueDate]

\* BSON order of a Date field: null sorts before every date
MongoDateLess(x, y) ==
    IF x = NullDate THEN y # NullDate ELSE y # NullDate /\ x < y

\* faulty variant: createdAt ascending
SortBefore_createdAsc(a, b) ==
    IF a.isImportant # b.isImportant THEN a.isImportant
    ELSE IF a.dueDate # b.dueDate THEN MongoDateLess(a.dueDate, b.dueDate)
    ELSE a.createdAt < b.createdAt

\* .sort({ isImportant: -1, dueDate: 1, createdAt: -1 }): a strictly before b
SortBefore(a, b) ==
    IF a.isImportant # b.isImportant THEN a.isImportant
    ELSE IF a.dueDate # b.dueDate THEN MongoDateLess(a.dueDate, b.dueDate)
    ELSE a.createdAt > b.createdAt

\* the orders in which the store may return a set of documents under the sort
SortedOrders(docs) ==
    LET n == Cardinality(docs)
    IN  {seq \in [1..n -> docs] :
            /\ \A i, j \in 1..n : i # j => seq[i] # seq[j]
            /\ \A i, j \in 1..n : i < j => ~SortBefore(seq[j], seq[i])}

Documents(ts) == {ts[i] : i \in DOMAIN ts} \ {NoTask}

\* Task.countDocuments
CountCompleted(ts, u) ==
    Cardinality({d \in Documents(ts) : d.user = u /\ d.status = "completed"})
CountPending(ts, u) ==
    Cardinality({d \in Documents(ts) : d.user = u /\ d.status = "pending"})
CountImportant(ts, u) ==
    Cardinality({d \in Documents(ts) : d.user = u /\ d.isImportant})
CountPriority(ts, u, p) ==
    Cardinality({d \in Documents(ts) : d.user = u /\ d.priority = p})
CountOverdue(ts, u, t) ==
    Cardinality({d \in Documents(ts) :
                    /\ d.user = u /\ d.status = "pending"
                    /\ d.dueDate # NullDate /\ d.dueDate < t})
CountAll(ts, u) == Cardinality({d \in Documents(ts) : d.user = u})

(***************************************************************************)
(* controllers/taskController.js.  A handler yields the set of its         *)
(* possible outcomes: the store after it and the fields of its response.   *)
(***************************************************************************)
Outcome(ts, status, message, stages) ==
    [tasks |-> ts, status |-> status, message |-> message,
     stages |-> stages, before |-> NoTask, task |-> NoTask, list |-> <<>>,
     count |-> -1, stats |-> NoStats]

\* faulty variant: the priority filter is not applied
ListQuery_noPriority(caller, query, d) ==
    /\ d.user = caller
    /\ query.status # Absent => d.status = query.status
    /\ query.isImportant # Absent => d.isImportant = (query.isImportant = StrTrue)

\* the query built from req.query
ListQuery(caller, query, d) ==
    /\ d.user = caller
    /\ query.status # Absent => d.status = query.status
    /\ query.priority # Absent => d.priority = query.priority
    /\ query.isImportant # Absent => d.isImportant = (query.isImportant = StrTrue)

getTasks(ts, caller, query) ==
    LET found == {d \in Documents(ts) : ListQuery(caller, query, d)}
    IN  {[Outcome(ts, 200, "", <<"handler">>) EXCEPT
            !.list  = order,
            !.count = Len(order),
            !.stats = [NoStats EXCEPT
                          !.total     = CountAll(ts, caller),
                          !.completed = CountCompleted(ts, caller),
                          !.pending   = CountPending(ts, caller),
                          !.important = CountImportant(ts, caller)]]
         : order \in SortedOrders(found)}

\* the statistics body from the countDocuments results
StatsBody(total, completed, pending, important, overdue, high, medium, low) ==
    [total |-> total, completed |-> completed, pending |-> pending,
     important |-> important, overdue |-> overdue,
     completionRate |-> CompletionRate(completed, total),
     high |-> high, medium |-> medium, low |-> low]

getTaskStats(ts, caller, t) ==
    {[Outcome(ts, 200, "", <<"handler">>) EXCEPT
        !.stats = StatsBody(CountAll(ts, caller), CountCompleted(ts, caller),
                            CountPending(ts, caller), CountImportant(ts, caller),
                            CountOverdue(ts, caller, t),
                            CountPriority(ts, caller, "high"),
                            CountPriority(ts, caller, "medium"),
                            CountPriority(ts, caller, "low"))]}

\* catch (error) of a handler: whatever the store threw, the handler answers
\* 500 itself
Caught(ts, message) == Outcome(ts, 500, message, <<"handler">>)

\* the two early returns shared by the handlers of /:id routes
NotFound(ts) == Outcome(ts, 404, "Task not found", <<"handler">>)
Forbidden(ts, doc, verb) ==
    [Outcome(ts, 403, "Not authorized to " \o verb \o " this task",
             <<"handler", "ownerCheck">>) EXCEPT !.before = doc]

getTask(ts, caller, id) ==
    LET doc == findById(ts, id)
    IN  IF CastFails(id) THEN {Caught(ts, "Error fetching task")}
        ELSE IF doc = NoTask THEN {NotFound(ts)}
        ELSE IF doc.user # caller THEN {Forbidden(ts, doc, "access")}
        ELSE {[Outcome(ts, 200, "", <<"handler", "ownerCheck">>) EXCEPT
                  !.before = doc, !.task = doc]}

createTask(ts, caller, body, t) ==
    IF TaskValidationFails(body)
    THEN {Caught(ts, "Error creating task")}
    ELSE IF Len(ts) >= MaxTasks THEN {}
    ELSE LET doc == TaskCreate(Len(ts) + 1, caller, body, t)
         IN  {[Outcome(Append(ts, doc), 201,
                       "Task created successfully", <<"handler">>) EXCEPT
                  !.task = doc]}

updateTask(ts, caller, id, body, t) ==
    LET doc == findById(ts, id)
    IN  IF CastFails(id) THEN {Caught(ts, "Error updating task")}
        ELSE IF doc = NoTask THEN {NotFound(ts)}
        ELSE IF doc.user # caller THEN {Forbidden(ts, doc, "update")}
        ELSE LET new == findByIdAndUpdate(doc, body, t)
             IN  {[Outcome([ts EXCEPT ![id] = new], 200,
                           "Task updated successfully",
                           <<"handler", "ownerCheck">>) EXCEPT
                      !.before = doc, !.task = new]}

\* faulty variant: the ownership check is missing
deleteTask_noOwnerCheck(ts, caller, id) ==
    LET doc == findById(ts, id)
    IN  IF CastFails(id) THEN {Caught(ts, "Error deleting task")}
        ELSE IF doc = NoTask THEN {NotFound(ts)}
        ELSE {[Outcome([ts EXCEPT ![id] = NoTask], 200,
                       "Task deleted successfully",
                       <<"handler", "ownerCheck">>) EXCEPT !.before = doc]}

deleteTask(ts, caller, id) ==
    LET doc == findById(ts, id)
    IN  IF CastFails(id) THEN {Caught(ts, "Error deleting task")}
        ELSE IF doc = NoTask THEN {NotFound(ts)}
        ELSE IF doc.user # caller THEN {Forbidden(ts, doc, "delete")}
        ELSE {[Outcome([ts EXCEPT ![id] = NoTask], 200,
                       "Task deleted successfully",
                       <<"handler", "ownerCheck">>) EXCEPT !.before = doc]}

toggleTaskStatus(ts, caller, id, t) ==
    LET doc == findById(ts, id)
    IN  IF CastFails(id) THEN {Caught(ts, "Error toggling task status")}
        ELSE IF doc = NoTask THEN {NotFound(ts)}
        ELSE IF doc.user # caller THEN {Forbidden(ts, doc, "modify")}
        ELSE LET new == toggleStatus(doc, t)
             IN  {[Outcome([ts EXCEPT ![id] = new], 200,
                           "Task marked as " \o new.status,
                           <<"handler", "ownerCheck">>) EXCEPT
                      !.before = doc, !.task = new]}

toggleTaskImportance(ts, caller, id, t) ==
    LET doc == findById(ts, id)
    IN  IF CastFails(id) THEN {Caught(ts, "Error toggling task importance")}
        ELSE IF doc = NoTask THEN {NotFound(ts)}
        ELSE IF doc.user # caller THEN {Forbidden(ts, doc, "modify")}
        ELSE LET new == toggleImportant(doc, t)
             IN  {[Outcome([ts EXCEPT ![id] = new], 200,
                           IF new.isImportant THEN "Task marked as important"
                           ELSE "Task unmarked as important",
                           <<"handler", "ownerCheck">>) EXCEPT
                      !.before = doc, !.task = new]}

\* routes/tasks.js: route -> controller
Controller(op, ts, caller, id, input, t) ==
    CASE op = "getTasks"             -> getTasks(ts, caller, input)
      [] op = "getTaskStats"         -> getTaskStats(ts, caller, t)
      [] op = "getTask"              -> getTask(ts, caller, id)
      [] op = "createTask"           -> createTask(ts, caller, input, t)
      [] op = "updateTask"           -> updateTask(ts, caller, id, input, t)
      [] op = "deleteTask"           -> deleteTask(ts, caller, id)
      [] op = "toggleTaskStatus"     -> toggleTaskStatus(ts, caller, id, t)
      [] op = "toggleTaskImportance" -> toggleTaskImportance(ts, caller, id, t)

(***************************************************************************)
(* Authentication routes.  controllers/authController.js is not part of    *)
(* the sources at hand: the four handlers follow the design description.   *)
(***************************************************************************)
SignToken(u, t) == [sub |-> u, iat |-> t, sig |-> "good"]

AuthOutcome(us, iss, status, message) ==
    [users |-> us, issued |-> iss, status |-> status, message |-> message,
     grant |-> NoToken, profile |-> NoProfile]

\* User.create runs the save hook; the created document holds the hash
register(us, iss, body, t) ==
    LET u == ToLower(body.email)
        token == SignToken(u, t)
        created == [us EXCEPT ![u] = userPreSave([state |-> "active",
                                                  password |-> body.password],
                                                 TRUE)]
    IN  IF us[u].state # "none"
        THEN {AuthOutcome(us, iss, 400, "User already exists")}
        ELSE IF token \notin iss /\ Cardinality(iss) >= MaxTokens THEN {}
        ELSE {[AuthOutcome(created, iss \cup {token}, 201,
                           "User registered successfully")
                  EXCEPT !.grant = token,
                         !.profile = getPublicProfile(findUser(created, u, TRUE))]}

\* the user is loaded with its password to compare it; lastLogin is set and
\* the document is saved
login(us, iss, body, t) ==
    LET u == ToLower(body.email)
        token == SignToken(u, t)
        saved == [us EXCEPT ![u] = userPreSave(@, FALSE)]
    IN  IF us[u].state \notin {"active", "inactive"}
           \/ ~matchPassword(body.password, us[u].password)
        THEN {AuthOutcome(us, iss, 401, "Invalid credentials")}
        ELSE IF token \notin iss /\ Cardinality(iss) >= MaxTokens THEN {}
        ELSE {[AuthOutcome(saved, iss \cup {token}, 200, "Login successful")
                  EXCEPT !.grant = token,
                         !.profile = getPublicProfile(findUser(saved, u, TRUE))]}

logout(us, iss) == {AuthOutcome(us, iss, 200, "Logged out successfully")}

changePassword(us, iss, caller, body) ==
    IF ~matchPassword(body.password, us[caller].password)
    THEN {AuthOutcome(us, iss, 401, "Current password is incorrect")}
    ELSE {AuthOutcome([us EXCEPT ![caller] =
                          userPreSave([@ EXCEPT !.password = body.newPassword],
                                      TRUE)],
                      iss, 200, "Password changed successfully")}

\* GET /auth/me answers with the user object that protect attached
getMe(us, iss, reqUser) ==
    {[AuthOutcome(us, iss, 200, "") EXCEPT !.profile = reqUser]}

\* PUT /auth/profile: name and avatar are set on the caller's document and the
\* document is saved
updateProfile(us, iss, caller) ==
    LET saved == [us EXCEPT ![caller] = userPreSave(@, FALSE)]
    IN  {[AuthOutcome(saved, iss, 200, "Profile updated successfully")
             EXCEPT !.profile = getPublicProfile(findUser(saved, caller, FALSE))]}

AuthController(op, us, iss, caller, reqUser, body, t) ==
    CASE op = "register"       -> register(us, iss, body, t)
      [] op = "login"          -> login(us, iss, body, t)
      [] op = "logout"         -> logout(us, iss)
      [] op = "changePassword" -> changePassword(us, iss, caller, body)
      [] op = "getMe"          -> getMe(us, iss, reqUser)
      [] op = "updateProfile"  -> updateProfile(us, iss, caller)

AuthOps ==
    {"register", "login", "logout", "changePassword", "getMe", "updateProfile"}

(***************************************************************************)
(* middleware/errorHandler.js: the terminal error handler                  *)
(***************************************************************************)
NoError == [name |-> "", code |-> 0, message |-> "", value |-> ""]

errorHandler(err) ==
    LET cast      == IF err.name = "CastError"
                     THEN [message |-> "Resource not found", statusCode |-> 404]
                     ELSE [message |-> err.message, statusCode |-> 0]
        duplicate == IF err.code = 11000
                     THEN [message |-> "Duplicate field value: " \o err.value
                                       \o ". Please use another value.",
                           statusCode |-> 400]
                     ELSE cast
        invalid   == IF err.name = "ValidationError"
                     THEN [message |-> err.message, statusCode |-> 400]
                     ELSE duplicate
        badToken  == IF err.name = "JsonWebTokenError"
                     THEN [message |-> "Invalid token. Please log in again.",
                           statusCode |-> 401]
                     ELSE invalid
        expired   == IF err.name = "TokenExpiredError"
                     THEN [message |-> "Token expired. Please log in again.",
                           statusCode |-> 401]
                     ELSE badToken
    IN  [status  |-> IF expired.statusCode # 0 THEN expired.statusCode ELSE 500,
         message |-> IF expired.message # "" THEN expired.message
                     ELSE "Server Error"]

(***************************************************************************)
(* Registration in steps: the lookup by email, then User.create.  The      *)
(* collection has a unique index on email (unique: true), and the schema   *)
(* stores the address in lower case (lowercase: true).                     *)
(***************************************************************************)
\* faulty variant: the collection has no unique index
insertUser_noIndex(us, email, password) ==
    [err |-> NoError,
     users |-> [us EXCEPT ![ToLower(email)] =
                   [state |-> "active", password |-> Hash(password)]]]

\* User.create: insert of a new document, or the duplicate key error E11000
insertUser(us, email, password) ==
    IF us[ToLower(email)].state # "none"
    THEN [err |-> [NoError EXCEPT !.code = 11000, !.value = ToLower(email),
                                  !.message = "E11000 duplicate key error"],
          users |-> us]
    ELSE [err |-> NoError,
          users |-> [us EXCEPT ![ToLower(email)] =
                        [state |-> "active", password |-> Hash(password)]]]

\* a registration request reaches its handler
BeginRegister(slot, body) ==
    /\ inflight[slot].pc = "idle"
    /\ registerSchema(body).errors = {}
    /\ inflight' = [inflight EXCEPT ![slot] =
                       [NoFlight EXCEPT
                           !.op = "register", !.pc = "find", !.input = body,
                           !.existed = users[ToLower(body.email)].state # "none"]]
    /\ last' = NoResp
    /\ UNCHANGED <<users, issued, tasks, now, hits, counts, client>>

\* the lookup of the address
RegisterFind(slot) ==
    LET f == inflight[slot]
    IN  /\ f.op = "register" /\ f.pc = "find"
        /\ inflight' = [inflight EXCEPT ![slot] =
                           IF users[ToLower(f.input.email)].state # "none"
                           THEN [f EXCEPT !.pc = "done", !.status = 400,
                                          !.message = "User already exists"]
                           ELSE [f EXCEPT !.pc = "create"]]
        /\ last' = NoResp
        /\ UNCHANGED <<users, issued, tasks, now, hits, counts, client>>

\* User.create, the token and the response
RegisterCreate(slot) ==
    LET f == inflight[slot]
        ins == insertUser(users, f.input.email, f.input.password)
        u == ToLower(f.input.email)
        token == SignToken(u, now)
    IN  /\ f.op = "register" /\ f.pc = "create"
        /\ token \in issued \/ Cardinality(issued) < MaxTokens
        /\ users' = ins.users
        /\ IF ins.err # NoError
           THEN /\ inflight' = [inflight EXCEPT ![slot] =
                                   [f EXCEPT !.pc = "done",
                                             !.status = errorHandler(ins.err).status,
                                             !.message = errorHandler(ins.err).message]]
                /\ issued' = issued
           ELSE /\ inflight' = [inflight EXCEPT ![slot] =
                                   [f EXCEPT !.pc = "done", !.status = 201,
                                             !.writes = 1,
                                             !.message = "User registered successfully",
                                             !.grant = token,
                                             !.profile = getPublicProfile(
                                                 findUser(ins.users, u, TRUE))]]
                /\ issued' = issued \cup {token}
        /\ last' = NoResp
        /\ UNCHANGED <<tasks, now, hits, counts, client>>

(***************************************************************************)
(* getTaskStats and getTasks in steps: every countDocuments and the find   *)
(* is an await of its own, between which other requests reach the store.   *)
(***************************************************************************)
\* the countDocuments calls in the order of the handler
CountOrder(op) ==
    IF op = "getTaskStats"
    THEN <<"total", "completed", "pending", "important", "overdue",
           "high", "medium", "low">>
    ELSE <<"total", "completed", "pending", "important">>

\* the result of the countDocuments call at position pc
CountAt(pc, ts, u, t) ==
    CASE pc = "total"     -> CountAll(ts, u)
      [] pc = "completed" -> CountCompleted(ts, u)
      [] pc = "pending"   -> CountPending(ts, u)
      [] pc = "important" -> CountImportant(ts, u)
      [] pc = "overdue"   -> CountOverdue(ts, u, t)
      [] pc = "high"      -> CountPriority(ts, u, "high")
      [] pc = "medium"    -> CountPriority(ts, u, "medium")
      [] pc = "low"       -> CountPriority(ts, u, "low")

PcAfter(op, pc) ==
    LET order == CountOrder(op)
        i == CHOOSE k \in 1..Len(order) : order[k] = pc
    IN  IF i = Len(order) THEN "done" ELSE order[i + 1]

\* a statistics request of an authenticated caller reaches its handler
BeginStats(slot, caller) ==
    /\ inflight[slot].pc = "idle"
    /\ inflight' = [inflight EXCEPT ![slot] =
                       [NoFlight EXCEPT !.op = "getTaskStats", !.pc = "total",
                                        !.caller = caller]]
    /\ last' = NoResp
    /\ UNCHANGED <<users, issued, tasks, now, hits, counts, client>>

\* a list request of an authenticated caller, its query validated
BeginList(slot, caller, query) ==
    /\ inflight[slot].pc = "idle"
    /\ taskFilterSchema(query).errors = {}
    /\ inflight' = [inflight EXCEPT ![slot] =
                       [NoFlight EXCEPT !.op = "getTasks", !.pc = "find",
                                        !.caller = caller,
                                        !.input = taskFilterSchema(query).value]]
    /\ last' = NoResp
    /\ UNCHANGED <<users, issued, tasks, now, hits, counts, client>>

\* Task.find(query).sort(...)
ListFind(slot) ==
    LET f == inflight[slot]
    IN  /\ f.op = "getTasks" /\ f.pc = "find"
        /\ \E order \in SortedOrders({d \in Documents(tasks) :
                                          ListQuery(f.caller, f.input, d)}) :
              inflight' = [inflight EXCEPT ![slot] =
                              [f EXCEPT !.pc = "total", !.list = order]]
        /\ last' = NoResp
        /\ UNCHANGED <<users, issued, tasks, now, hits, counts, client>>

\* one countDocuments call; after the last one the response is built
CountStep(slot) ==
    LET f == inflight[slot]
        counted == [f.stats EXCEPT ![f.pc] = CountAt(f.pc, tasks, f.caller, now)]
        next == PcAfter(f.op, f.pc)
    IN  /\ f.op \in {"getTaskStats", "getTasks"}
        /\ f.pc \notin {"idle", "find", "done"}
        /\ inflight' = [inflight EXCEPT ![slot] =
              [f EXCEPT
                 !.pc = next,
                 !.status = IF next = "done" THEN 200 ELSE 0,
                 !.stats =
                    IF next = "done" /\ f.op = "getTaskStats"
                    THEN [counted EXCEPT
                            !.completionRate =
                                CompletionRate(counted.completed, counted.total)]
                    ELSE counted]]
        /\ last' = NoResp
        /\ UNCHANGED <<users, issued, tasks, now, hits, counts, client>>

(***************************************************************************)
(* The handlers of the /:id routes that write, in steps: findById and the  *)
(* ownership check, then, after an await, the write.                       *)
(***************************************************************************)
\* faulty variant: the update is refused when the stored document is no
\* longer the one that was read
save_versioned(stored, was, is) ==
    IF stored # was THEN [err |-> TRUE, doc |-> stored]
    ELSE [err |-> FALSE, doc |-> is]

\* document.save() of a document read earlier: updateOne({_id}, {$set: ...})
\* with the paths whose value differs from the one read; a document that is
\* gone makes it fail (DocumentNotFoundError)
save(stored, was, is) ==
    IF stored = NoTask THEN [err |-> TRUE, doc |-> NoTask]
    ELSE [err |-> FALSE,
          doc |-> [stored EXCEPT
                     !.status      = IF is.status # was.status
                                     THEN is.status ELSE @,
                     !.completedAt = IF is.completedAt # was.completedAt
                                     THEN is.completedAt ELSE @,
                     !.isImportant = IF is.isImportant # was.isImportant
                                     THEN is.isImportant ELSE @,
                     !.updatedAt   = is.updatedAt]]

WriteOps == {"updateTask", "deleteTask", "toggleTaskStatus", "toggleTaskImportance"}

CatchMessage(op) ==
    CASE op = "updateTask" -> "Error updating task"
      [] op = "deleteTask" -> "Error deleting task"
      [] op = "toggleTaskStatus" -> "Error toggling task status"
      [] op = "toggleTaskImportance" -> "Error toggling task importance"

Verb(op) == IF op = "updateTask" THEN "update"
            ELSE IF op = "deleteTask" THEN "delete" ELSE "modify"

\* the request has passed protect and validation and reaches its handler
BeginById(slot, op, caller, id, input) ==
    /\ inflight[slot].pc = "idle"
    /\ op \in WriteOps
    /\ inflight' = [inflight EXCEPT ![slot] =
          [NoFlight EXCEPT
             !.op = op, !.pc = "find", !.caller = caller, !.id = id,
             !.input = input, !.began = tasks,
             !.alone = \A other \in Slots : inflight[other].pc = "idle"]]
    /\ last' = NoResp
    /\ UNCHANGED <<users, issued, tasks, now, hits, counts, client>>

\* const task = await Task.findById(req.params.id), and the two early returns
FindStep(slot) ==
    LET f == inflight[slot]
        doc == findById(tasks, f.id)
    IN  /\ f.op \in WriteOps /\ f.pc = "find"
        /\ inflight' = [inflight EXCEPT ![slot] =
              IF CastFails(f.id)
              THEN [f EXCEPT !.pc = "done", !.status = 500,
                             !.message = CatchMessage(f.op)]
              ELSE IF doc = NoTask
              THEN [f EXCEPT !.pc = "done", !.status = 404,
                             !.message = "Task not found"]
              ELSE IF doc.user # f.caller
              THEN [f EXCEPT !.pc = "done", !.status = 403, !.doc = doc,
                             !.message = "Not authorized to " \o Verb(f.op)
                                             \o " this task"]
              ELSE [f EXCEPT !.pc = "write", !.doc = doc]]
        /\ last' = NoResp
        /\ UNCHANGED <<users, issued, tasks, now, hits, counts, client>>

\* await task.toggleStatus() / task.toggleImportant(): the method changes the
\* document that was read and saves it; a failed save is caught (500)
SaveStep(slot, is, message, failure) ==
    LET f == inflight[slot]
        r == save(findById(tasks, f.id), f.doc, is)
    IN  IF r.err
        THEN /\ inflight' = [inflight EXCEPT ![slot] =
                   [f EXCEPT !.pc = "done", !.status = 500, !.message = failure]]
             /\ UNCHANGED tasks
        ELSE /\ inflight' = [inflight EXCEPT ![slot] =
                   [f EXCEPT !.pc = "done", !.status = 200, !.task = is,
                             !.message = message, !.writes = @ + 1]]
             /\ tasks' = [tasks EXCEPT ![f.id] = r.doc]

\* the write of each handler
WriteStep(slot) ==
    LET f == inflight[slot]
        stored == findById(tasks, f.id)
    IN  /\ f.op \in WriteOps /\ f.pc = "write"
        /\ CASE f.op = "toggleTaskStatus" ->
                  LET is == toggleStatus(f.doc, now)
                  IN  SaveStep(slot, is, "Task marked as " \o is.status,
                               "Error toggling task status")
             [] f.op = "toggleTaskImportance" ->
                  LET is == toggleImportant(f.doc, now)
                  IN  SaveStep(slot, is,
                               IF is.isImportant THEN "Task marked as important"
                               ELSE "Task unmarked as important",
                               "Error toggling task importance")
             [] f.op = "updateTask" ->
                  \* findByIdAndUpdate answers null for a document that is gone
                  LET new == IF stored = NoTask THEN NoTask
                             ELSE findByIdAndUpdate(stored, f.input, now)
                  IN  /\ inflight' = [inflight EXCEPT ![slot] =
                            [f EXCEPT !.pc = "done", !.status = 200, !.task = new,
                                      !.message = "Task updated successfully",
                                      !.writes = @ + 1]]
                      /\ tasks' = IF stored = NoTask THEN tasks
                                  ELSE [tasks EXCEPT ![f.id] = new]
             [] f.op = "deleteTask" ->
                  /\ inflight' = [inflight EXCEPT ![slot] =
                        [f EXCEPT !.pc = "done", !.status = 200,
                                  !.message = "Task deleted successfully",
                                  !.writes = @ + 1]]
                  /\ tasks' = [tasks EXCEPT ![f.id] = NoTask]
        /\ last' = NoResp
        /\ UNCHANGED <<users, issued, now, hits, counts, client>>

\* the response of a finished handler reaches the client
Deliver(slot) ==
    LET f == inflight[slot]
    IN  /\ f.pc = "done"
        /\ last' = [NoResp EXCEPT
                      !.op = f.op, !.id = f.id, !.input = f.input,
                      !.caller = f.caller, !.stages = <<"handler">>,
                      !.status = f.status, !.message = f.message,
                      !.before = f.doc, !.task = f.task, !.list = f.list,
                      !.count = Len(f.list), !.stats = f.stats,
                      !.grant = f.grant, !.profile = f.profile]
        /\ inflight' = [inflight EXCEPT ![slot] = NoFlight]
        /\ UNCHANGED <<users, issued, tasks, now, hits, counts, client>>

(***************************************************************************)
(* The middleware chain of a route, in mount order:                        *)
(*   server.js   app.use('/api/', limiter)                                 *)
(*   tasks.js    router.use(protect); then validateRequest / validateQuery *)
(*               on the routes that have a schema; then the controller     *)
(*   auth.js     validateRequest on register and login, protect on the     *)
(*               other routes; then the controller                         *)
(***************************************************************************)
\* faulty variant: the task routes validate before they authenticate
RouteChain_validateFirst(op) ==
    IF op \in {"register", "login"} THEN <<"rateLimit", "validate", "handler">>
    ELSE IF op \in AuthOps THEN <<"rateLimit", "protect", "handler">>
    ELSE IF HasSchema(op) THEN <<"rateLimit", "validate", "protect", "handler">>
    ELSE <<"rateLimit", "protect", "handler">>

RouteChain(op) ==
    IF op \in {"register", "login"} THEN <<"rateLimit", "validate", "handler">>
    ELSE IF op \in AuthOps THEN <<"rateLimit", "protect", "handler">>
    ELSE IF HasSchema(op) THEN <<"rateLimit", "protect", "validate", "handler">>
    ELSE <<"rateLimit", "protect", "handler">>

\* the response and the new state when a middleware answers the request itself
Refuse(req, ctx, stage, status, message, errors) ==
    [hits |-> ctx.hits, users |-> users, issued |-> issued, tasks |-> tasks,
     resp |-> [NoResp EXCEPT !.op = req.op, !.token = req.token, !.id = req.id,
                             !.input = req.input, !.caller = ctx.caller,
                             !.reqUser = ctx.reqUser,
                             !.stages = Append(ctx.stages, stage),
                             !.status = status, !.message = message,
                             !.errors = errors]]

\* the controller's answer
Handle(req, ctx) ==
    LET base == [NoResp EXCEPT !.op = req.op, !.token = req.token, !.id = req.id,
                               !.input = req.input, !.caller = ctx.caller,
                               !.reqUser = ctx.reqUser]
    IN  IF req.op \in AuthOps
        THEN {[hits |-> ctx.hits, users |-> o.users, issued |-> o.issued,
               tasks |-> tasks,
               resp |-> [base EXCEPT !.stages = Append(ctx.stages, "handler"),
                                     !.status = o.status, !.message = o.message,
                                     !.grant = o.grant,
                                     !.profile = o.profile]]
              : o \in AuthController(req.op, users, issued, ctx.caller,
                                     ctx.reqUser, ctx.input, now)}
        ELSE {[hits |-> ctx.hits, users |-> users, issued |-> issued,
               tasks |-> o.tasks,
               resp |-> [base EXCEPT !.stages = ctx.stages \o o.stages,
                                     !.status = o.status, !.message = o.message,
                                     !.before = o.before, !.task = o.task,
                                     !.list = o.list, !.count = o.count,
                                     !.stats = o.stats]]
              : o \in Controller(req.op, tasks, ctx.caller, req.id,
                                 ctx.input, now)}

\* run the chain: each middleware either answers or calls next()
RECURSIVE RunChain(_, _, _)
RunChain(chain, req, ctx) ==
    LET stage == Head(chain)
        ran   == [ctx EXCEPT !.stages = Append(ctx.stages, stage)]
    IN  CASE stage = "rateLimit" ->
               LET lim == RateLimit(ctx.hits)
               IN  IF lim.blocked
                   THEN {Refuse(req, [ctx EXCEPT !.hits = lim.hits], stage, 429,
                                "Too many requests from this IP, please try again later.",
                                {})}
                   ELSE RunChain(Tail(chain), req, [ran EXCEPT !.hits = lim.hits])
          [] stage = "protect" ->
               LET auth == protect(req.token, now, users)
               IN  IF ~auth.ok
                   THEN {Refuse(req, ctx, stage, 401, auth.message, {})}
                   ELSE RunChain(Tail(chain), req,
                                 [ran EXCEPT !.caller = auth.user,
                                             !.reqUser = auth.doc])
          [] stage = "validate" ->
               LET checked == validateRequest(req.op, ctx.input, now)
               IN  IF checked.errors # {}
                   THEN {Refuse(req, ctx, stage, 400, ValidationMessage(req.op),
                                checked.errors)}
                   ELSE RunChain(Tail(chain), req, [ran EXCEPT !.input = checked.value])
          [] stage = "handler" -> Handle(req, ctx)

\* the outcomes of one HTTP request, from the limiter to the response
Serve(op, token, id, input) ==
    LET req == [op |-> op, token |-> token, id |-> id, input |-> input]
        ctx == [hits |-> hits, caller |-> NoUser, reqUser |-> NoProfile,
                input |-> input, stages |-> <<>>]
    IN  RunChain(RouteChain(op), req, ctx)

\* one HTTP request of some client
Request(op, token, id, input) ==
        \E r \in Serve(op, token, id, input) :
            /\ hits' = r.hits
            /\ users' = r.users
            /\ issued' = r.issued
            /\ tasks' = r.tasks
            /\ last' = r.resp
            /\ UNCHANGED <<now, counts, inflight, client>>

(***************************************************************************)
(* Requests of the clients, one action per route                           *)
(***************************************************************************)
\* a token whose signature does not verify
ForgedToken == [sub |-> "u1", iat |-> 0, sig |-> "bad"]

GetTasksReq(tokens, queries) ==
    \E token \in tokens, query \in queries : Request("getTasks", token, 0, query)

GetTaskStatsReq(tokens) ==
    \E token \in tokens : Request("getTaskStats", token, 0, NoInput)

GetTaskReq(tokens) ==
    \E token \in tokens, id \in TaskIds : Request("getTask", token, id, NoInput)

CreateTaskReq(tokens, bodies) ==
    \E token \in tokens, body \in bodies : Request("createTask", token, 0, body)

UpdateProfileReq(tokens) ==
    \E token \in tokens : Request("updateProfile", token, 0, NoInput)

UpdateTaskReq(tokens, bodies) ==
    \E token \in tokens, id \in TaskIds, body \in bodies :
        Request("updateTask", token, id, body)

DeleteTaskReq(tokens) ==
    \E token \in tokens, id \in TaskIds : Request("deleteTask", token, id, NoInput)

ToggleTaskStatusReq(tokens) ==
    \E token \in tokens, id \in TaskIds :
        Request("toggleTaskStatus", token, id, NoInput)

ToggleTaskImportanceReq(tokens) ==
    \E token \in tokens, id \in TaskIds :
        Request("toggleTaskImportance", token, id, NoInput)

RegisterReq(emails) ==
    \E u \in emails, pw \in Passwords :
        Request("register", NoToken, 0,
                [NoInput EXCEPT !.name = "Ann", !.email = u, !.password = pw])

LoginReq(emails) ==
    \E u \in emails, pw \in Passwords :
        Request("login", NoToken, 0,
                [NoInput EXCEPT !.email = u, !.password = pw])

GetMeReq(tokens) ==
    \E token \in tokens : Request("getMe", token, 0, NoInput)

LogoutReq(tokens) ==
    \E token \in tokens : Request("logout", token, 0, NoInput)

ChangePasswordReq(tokens) ==
    \E token \in tokens, cur \in Passwords, new \in Passwords :
        Request("changePassword", token, 0,
                [NoInput EXCEPT !.password = cur, !.newPassword = new])

(***************************************************************************)
(* The environment                                                         *)
(***************************************************************************)
\* time passes
Tick(limit) ==
    /\ now < limit
    /\ now' = now + 1
    /\ last' = NoResp
    /\ UNCHANGED <<users, issued, tasks, hits, counts, inflight, client>>

\* windowMs has elapsed: the limiter's window starts again
WindowReset ==
    /\ hits > 0
    /\ hits' = 0
    /\ last' = NoResp
    /\ UNCHANGED <<users, issued, tasks, now, counts, inflight, client>>

\* an operator clears isActive on a user document
DeactivateUser ==
    \E u \in Users :
        /\ users[u].state = "active"
        /\ users' = [users EXCEPT ![u].state = "inactive"]
        /\ last' = NoResp
        /\ UNCHANGED <<issued, tasks, now, hits, counts, inflight, client>>

\* an operator removes a user document
RemoveUser ==
    \E u \in Users :
        /\ users[u].state \in {"active", "inactive"}
        /\ users' = [users EXCEPT ![u].state = "removed"]
        /\ last' = NoResp
        /\ UNCHANGED <<issued, tasks, now, hits, counts, inflight, client>>

(***************************************************************************)
(* The browser client (services/api.ts, AuthContext, TaskContext, App,     *)
(* DashboardPage).  A response is handled in the step in which the server  *)
(* answers the request.                                                    *)
(***************************************************************************)
\* axios merges api.defaults.headers.common into the request; the request
\* interceptor overwrites Authorization with the stored token if there is one
Carried(c) == IF c.lsToken # NoToken THEN c.lsToken ELSE c.header

send(c, op, id, input) ==
    [c EXCEPT !.requests = Append(@, [op |-> op, token |-> Carried(c),
                                      id |-> id, input |-> input,
                                      served |-> FALSE, resp |-> NoResp])]

setAuthToken(c, token) == [c EXCEPT !.lsToken = token, !.header = token]

clearAuthData(c) ==
    [c EXCEPT !.lsToken = NoToken, !.lsUser = NoUser, !.header = NoToken]

\* response interceptor: a 401 empties localStorage and assigns
\* window.location.href; the page is replaced when that navigation completes
responseInterceptor(c, req, status) ==
    IF status = 401
    THEN [c EXCEPT !.lsToken = NoToken, !.lsUser = NoUser,
                   !.navigating = TRUE, !.rejected = req.token, !.status = status]
    ELSE [c EXCEPT !.status = status]

\* TaskProvider.getTasks as created by a render in which state.isLoading was
\* sawLoading
contextGetTasks(c, sawLoading) ==
    IF sawLoading THEN c
    ELSE send([c EXCEPT !.isLoading = TRUE], "getTasks", 0, NoInput)

\* TaskProvider.getTaskStats, likewise
contextGetTaskStats(c, sawLoading) ==
    IF sawLoading THEN c ELSE send(c, "getTaskStats", 0, NoInput)

\* AUTH_SUCCESS is rendered: the App effect starts its timer, the route shows
\* the dashboard, and the mount effect of DashboardPage calls getTasks
authSuccess(c) ==
    LET shown == [c EXCEPT !.isAuthenticated = TRUE, !.location = "/dashboard",
                           !.timer = IF c.isLoading THEN "saw:true"
                                     ELSE "saw:false"]
    IN  IF c.hasTasks THEN shown ELSE contextGetTasks(shown, c.isLoading)

\* AUTH_FAILURE / LOGOUT is rendered: protected routes redirect, the App
\* effect is cleaned up
authFailure(c) ==
    [c EXCEPT !.isAuthenticated = FALSE, !.timer = "none",
              !.location = IF @ = "/dashboard" THEN "/login" ELSE @]

\* what the caller of the request does with its response
onResponse(c, req, resp) ==
    LET ok == resp.status \in {200, 201}
    IN  CASE req.op = "getMe" ->
               IF ok THEN authSuccess(c) ELSE authFailure(clearAuthData(c))
          [] req.op = "login" ->
               IF ok THEN authSuccess(setAuthToken([c EXCEPT !.rejected = NoToken],
                                                   resp.grant))
               ELSE authFailure(c)
          [] req.op = "getTasks" ->
               IF ok THEN [c EXCEPT !.isLoading = FALSE,
                                    !.hasTasks = resp.count > 0]
               ELSE [c EXCEPT !.isLoading = FALSE]
          [] OTHER -> c

\* AuthProvider shows the spinner while initializeAuth or login awaits
authLoading(c) ==
    \E i \in 1..Len(c.requests) : c.requests[i].op \in {"getMe", "login"}

RemoveAt(seq, i) == SubSeq(seq, 1, i - 1) \o SubSeq(seq, i + 1, Len(seq))

\* the document is loaded (first visit, reload, or the navigation that a 401
\* started): script state starts afresh, localStorage persists, and
\* initializeAuth runs
PageLoad ==
    \E path \in {"/login", "/dashboard"} :
        LET fresh == [NoClient EXCEPT
                        !.location = IF client.navigating THEN "/login" ELSE path,
                        !.lsToken = client.lsToken, !.lsUser = client.lsUser]
        IN  /\ client' = IF fresh.lsToken # NoToken
                         THEN send(setAuthToken(fresh, fresh.lsToken),
                                   "getMe", 0, NoInput)
                         ELSE fresh
            /\ last' = NoResp
            /\ UNCHANGED <<users, issued, tasks, now, hits, counts, inflight>>

\* the login form is submitted
ClientLogin(bodies) ==
    \E body \in bodies :
        /\ client.location = "/login"
        /\ ~client.isAuthenticated /\ ~authLoading(client)
        /\ Len(client.requests) < MaxRequests
        /\ client' = send(client, "login", 0, body)
        /\ last' = NoResp
        /\ UNCHANGED <<users, issued, tasks, now, hits, counts, inflight>>

\* the user toggles a task of the list
ClientToggle ==
    /\ client.location = "/dashboard"
    /\ client.isAuthenticated /\ ~client.isLoading /\ client.hasTasks
    /\ Len(client.requests) < MaxRequests
    /\ client' = send(client, "toggleTaskStatus", 1, NoInput)
    /\ last' = NoResp
    /\ UNCHANGED <<users, issued, tasks, now, hits, counts, inflight>>

\* the user logs out: the request is sent, then the credentials are cleared
ClientLogout ==
    /\ client.location = "/dashboard"
    /\ client.isAuthenticated /\ ~client.isLoading
    /\ Len(client.requests) < MaxRequests
    /\ client' = authFailure(clearAuthData(send(client, "logout", 0, NoInput)))
    /\ last' = NoResp
    /\ UNCHANGED <<users, issued, tasks, now, hits, counts, inflight>>

\* the timer of the App effect fires: getTasks(); getTaskStats()
TimerFires ==
    /\ client.timer # "none"
    /\ Len(client.requests) + 2 <= MaxRequests
    /\ LET saw == client.timer = "saw:true"
           listed == contextGetTasks([client EXCEPT !.timer = "none"], saw)
       IN  client' = contextGetTaskStats(listed, saw)
    /\ last' = NoResp
    /\ UNCHANGED <<users, issued, tasks, now, hits, counts, inflight>>

\* the server answers one of the requests and the client handles the response
ClientReceive ==
    \E i \in 1..Len(client.requests) :
        LET req == client.requests[i]
        IN  \E r \in Serve(req.op, req.token, req.id, req.input) :
                /\ hits' = r.hits
                /\ users' = r.users
                /\ issued' = r.issued
                /\ tasks' = r.tasks
                /\ last' = r.resp
                /\ client' = onResponse(
                       responseInterceptor(
                           [client EXCEPT !.requests = RemoveAt(@, i)],
                           req, r.resp.status),
                       req, r.resp)
                /\ UNCHANGED <<now, counts, inflight>>

(***************************************************************************)
(* Specifications                                                          *)
(***************************************************************************)
EmptyStore == <<>>

\* a fresh deployment: empty collections
Init ==
    /\ users = [u \in Users |-> [state |-> "none", password |-> ""]]
    /\ issued = {}
    /\ tasks = EmptyStore
    /\ now = 0
    /\ hits = 0
    /\ counts = NoCounts
    /\ last = NoResp
    /\ inflight = NoneInFlight
    /\ client = NoClient

\* two registered users, each holding the token of its registration
SeededUsers  == [u \in Users |-> [state |-> "active", password |-> Hash("p1")]]
SeededTokens == {SignToken(u, 0) : u \in Users}

InitSeeded ==
    /\ users = SeededUsers
    /\ issued = SeededTokens
    /\ tasks = EmptyStore
    /\ now = 0
    /\ hits = 0
    /\ counts = NoCounts
    /\ last = NoResp
    /\ inflight = NoneInFlight
    /\ client = NoClient

\* --- task routes on a growing store ---
\* the clock stands still: the task handlers read it only for timestamps, and
\* token expiry is the subject of SpecAuth
CrudTokens == issued \cup {NoToken}
CrudCreateBodies ==
    {[NoInput EXCEPT !.title = title, !.isImportant = imp] :
        title \in {"Buy milk", Absent}, imp \in {Absent, JsTrue}}
CrudUpdateBodies ==
    {[NoInput EXCEPT !.status = st] : st \in {"pending", "completed", "archived"}}

Next ==
    \/ CreateTaskReq(CrudTokens, CrudCreateBodies)
    \/ UpdateTaskReq(CrudTokens, CrudUpdateBodies)
    \/ DeleteTaskReq(CrudTokens)
    \/ GetTaskReq(CrudTokens)
    \/ ToggleTaskStatusReq(CrudTokens)
    \/ ToggleTaskImportanceReq(CrudTokens)
    \/ WindowReset

Spec == InitSeeded /\ [][Next]_vars

\* --- GET /tasks on stores the task routes can build ---
StoredDoc(id, user, status, priority, imp, due, created) ==
    [id |-> id, user |-> user, status |-> status,
     completedAt |-> IF status = "completed" THEN created ELSE NullDate,
     priority |-> priority, isImportant |-> imp, dueDate |-> due,
     createdAt |-> created, updatedAt |-> created]

\* documents that differ in the owner and in the fields the status and
\* priority filters read
FilterFields == Users \X Statuses \X {"medium", "high"}
FilterStores ==
    UNION {{[i \in 1..n |-> StoredDoc(i, f[i][1], f[i][2], f[i][3], FALSE,
                                      NullDate, MaxTime)]
               : f \in [1..n -> FilterFields]}
           : n \in 0..MaxListed}

\* documents of one user that differ in the fields the sort reads; ids are
\* allocated in creation order
SortFields == BOOLEAN \X {NullDate, 1, 2} \X (0..MaxTime)
SortStores ==
    UNION {{[i \in 1..n |-> StoredDoc(i, "u1", "pending", "medium", f[i][1],
                                      f[i][2], f[i][3])]
               : f \in {g \in [1..n -> SortFields] :
                           \A i, j \in 1..n : i < j => g[i][3] <= g[j][3]}}
           : n \in 0..MaxListed}

InitList ==
    /\ users = SeededUsers
    /\ issued = {SignToken(u, MaxTime) : u \in Users}
    /\ tasks \in FilterStores \cup SortStores
    /\ now = MaxTime
    /\ hits = 0
    /\ counts = NoCounts
    /\ last = NoResp
    /\ inflight = NoneInFlight
    /\ client = NoClient

ListTokens == {SignToken("u1", MaxTime)}
ListQueries ==
    {[NoInput EXCEPT !.status = st, !.priority = pr, !.isImportant = imp] :
        st \in {Absent, "pending", "completed"}, pr \in {Absent, "high"},
        imp \in {Absent, StrTrue, StrFalse}}
    \cup {[NoInput EXCEPT !.status = "archived"]}

NextList ==
    \/ GetTasksReq(ListTokens, ListQueries)
    \/ WindowReset

SpecList == InitList /\ [][NextList]_vars

\* --- the statistics arithmetic on countDocuments results ---
InitStats ==
    /\ users = SeededUsers
    /\ issued = SeededTokens
    /\ tasks = EmptyStore
    /\ now = 0
    /\ hits = 0
    /\ counts \in {[completed |-> c, total |-> t] : c, t \in 0..MaxCount}
    /\ counts.completed <= counts.total
    /\ last = NoResp
    /\ inflight = NoneInFlight
    /\ client = NoClient

\* getTaskStats from the point where the counts are known
StatsArithmetic ==
    /\ counts # NoCounts
    /\ last = NoResp
    /\ last' = [NoResp EXCEPT
                  !.op = "statsArithmetic",
                  !.status = 200,
                  !.stats = StatsBody(counts.total, counts.completed,
                                      counts.total - counts.completed,
                                      0, 0, 0, counts.total, 0)]
    /\ UNCHANGED <<users, issued, tasks, now, hits, counts, inflight, client>>

NextStats == StatsArithmetic

SpecStats == InitStats /\ [][NextStats]_vars

\* --- authentication: registration, tokens, time ---
AuthEmails == {"u1"}
AuthTokens == issued \cup {NoToken, ForgedToken}
AuthTimeLimit == TokenTTL + 1

NextAuth ==
    \/ RegisterReq(AuthEmails)
    \/ LoginReq(AuthEmails)
    \/ LogoutReq(AuthTokens)
    \/ GetMeReq(AuthTokens)
    \/ ChangePasswordReq(AuthTokens)
    \/ GetTaskStatsReq(AuthTokens)
    \/ Tick(AuthTimeLimit)
    \/ WindowReset
    \/ DeactivateUser
    \/ RemoveUser

SpecAuth == Init /\ [][NextAuth]_vars

\* --- schema validation: bodies and queries that break several rules ---
StoredTask == TaskCreate(1, "u1", [NoInput EXCEPT !.title = "Buy milk"], 0)

InitValidate ==
    /\ users = SeededUsers
    /\ issued = SeededTokens
    /\ tasks \in {EmptyStore, <<StoredTask>>}
    /\ now = 0
    /\ hits = 0
    /\ counts = NoCounts
    /\ last = NoResp
    /\ inflight = NoneInFlight
    /\ client = NoClient

ValidateTokens == {SignToken("u1", 0)}
ValidateCreateBodies ==
    {[NoInput EXCEPT !.title = ti, !.priority = pr, !.isImportant = imp,
                     !.dueDate = due] :
        ti \in {Absent, "", "Buy milk"}, pr \in {Absent, "urgent"},
        imp \in {Absent, "maybe"}, due \in {AbsentDate, 0}}
ValidateUpdateBodies ==
    {[NoInput EXCEPT !.title = ti, !.status = st, !.priority = pr] :
        ti \in {Absent, ""}, st \in {Absent, "archived", "completed"},
        pr \in {Absent, "urgent"}}
ValidateQueries ==
    {[NoInput EXCEPT !.status = st, !.priority = pr, !.isImportant = imp] :
        st \in {Absent, "archived"}, pr \in {Absent, "urgent"},
        imp \in {Absent, "maybe", StrTrue}}
ValidateRegisterBodies ==
    {[NoInput EXCEPT !.name = nm, !.email = em, !.password = pw] :
        nm \in {Absent, "A", "Ann"}, em \in {"", "not-an-email", "u1"},
        pw \in {Absent, "pw", "p1"}}
ValidateLoginBodies ==
    {[NoInput EXCEPT !.email = em, !.password = pw] :
        em \in {Absent, "not-an-email", "u1"}, pw \in {Absent, "", "p1"}}

RegisterBodyReq(bodies) ==
    \E body \in bodies : Request("register", NoToken, 0, body)

LoginBodyReq(bodies) ==
    \E body \in bodies : Request("login", NoToken, 0, body)

NextValidate ==
    \/ CreateTaskReq(ValidateTokens, ValidateCreateBodies)
    \/ UpdateTaskReq(ValidateTokens, ValidateUpdateBodies)
    \/ GetTasksReq(ValidateTokens, ValidateQueries)
    \/ RegisterBodyReq(ValidateRegisterBodies)
    \/ LoginBodyReq(ValidateLoginBodies)
    \/ WindowReset

SpecValidate == InitValidate /\ [][NextValidate]_vars

\* --- login attempts against one registered and one unknown address ---
InitLogin ==
    /\ users = [u \in Users |->
                  IF u = "u1" THEN [state |-> "active", password |-> Hash("p1")]
                  ELSE [state |-> "none", password |-> ""]]
    /\ issued = {}
    /\ tasks = EmptyStore
    /\ now = 0
    /\ hits = 0
    /\ counts = NoCounts
    /\ last = NoResp
    /\ inflight = NoneInFlight
    /\ client = NoClient

LoginBodies ==
    {[NoInput EXCEPT !.email = em, !.password = pw] :
        em \in {"u1", "U1", "u2", "not-an-email"},
        pw \in {"p1", "p2", ""}}
LoginRegisterBodies ==
    {[NoInput EXCEPT !.name = "Ann", !.email = "u2", !.password = "p2"]}

NextLogin ==
    \/ LoginBodyReq(LoginBodies)
    \/ RegisterBodyReq(LoginRegisterBodies)
    \/ Tick(MaxTime)
    \/ WindowReset

SpecLogin == InitLogin /\ [][NextLogin]_vars

\* --- registrations that run at the same time ---
ConcurrentRegisterBodies ==
    {[NoInput EXCEPT !.name = "Ann", !.email = em, !.password = pw] :
        em \in {"u1", "U1"}, pw \in {"p1", "p2"}}

NextRegister ==
    \/ \E slot \in Slots, body \in ConcurrentRegisterBodies :
          BeginRegister(slot, body)
    \/ \E slot \in Slots : RegisterFind(slot)
    \/ \E slot \in Slots : RegisterCreate(slot)
    \/ \E slot \in Slots : Deliver(slot)

SpecRegister == Init /\ [][NextRegister]_vars

\* --- statistics and list requests while the store is written ---
StatsRaceTokens == {SignToken("u1", 0)}
StatsRaceBodies == {[NoInput EXCEPT !.title = "Buy milk", !.priority = "high"]}
StatsRaceQueries == {NoInput}

NextStatsRace ==
    \/ \E slot \in Slots : BeginStats(slot, "u1")
    \/ \E slot \in Slots, query \in StatsRaceQueries : BeginList(slot, "u1", query)
    \/ \E slot \in Slots : ListFind(slot)
    \/ \E slot \in Slots : CountStep(slot)
    \/ \E slot \in Slots : Deliver(slot)
    \/ CreateTaskReq(StatsRaceTokens, StatsRaceBodies)
    \/ DeleteTaskReq(StatsRaceTokens)
    \/ WindowReset

SpecStatsRace == InitSeeded /\ [][NextStatsRace]_vars

\* --- two requests on one task, handled concurrently ---
\* the task as the routes can have left it: created, completed by a toggle,
\* completed or reopened by a PUT (completedAt untouched), marked important
PairStores ==
    {<<[NoTask EXCEPT !.id = 1, !.user = "u1", !.status = st,
                      !.completedAt = done, !.priority = "medium",
                      !.isImportant = imp, !.createdAt = 0]>> :
        st \in Statuses, done \in {NullDate, 0}, imp \in BOOLEAN}

InitPair ==
    /\ users = SeededUsers
    /\ issued = SeededTokens
    /\ tasks \in PairStores
    /\ now = 1
    /\ hits = 0
    /\ counts = NoCounts
    /\ last = NoResp
    /\ inflight = NoneInFlight
    /\ client = NoClient

PairUpdateBodies == {[NoInput EXCEPT !.status = "completed"]}

PairRequest(slot) ==
    \E op \in WriteOps :
        \E input \in IF op = "updateTask" THEN PairUpdateBodies ELSE {NoInput} :
            BeginById(slot, op, "u1", 1, input)

NextPair ==
    \/ \E slot \in Slots : PairRequest(slot)
    \/ \E slot \in Slots : FindStep(slot)
    \/ \E slot \in Slots : WriteStep(slot)

SpecPair == InitPair /\ [][NextPair]_vars

\* --- requests on one task, arriving while others are handled ---
InitRace ==
    /\ users = SeededUsers
    /\ issued = SeededTokens
    /\ tasks = <<[NoTask EXCEPT !.id = 1, !.user = "u1", !.status = "pending",
                                !.priority = "medium", !.createdAt = 0]>>
    /\ now = 1
    /\ hits = 0
    /\ counts = NoCounts
    /\ last = NoResp
    /\ inflight = NoneInFlight
    /\ client = NoClient

NextRace ==
    \/ \E slot \in Slots : PairRequest(slot)
    \/ \E slot \in Slots : FindStep(slot)
    \/ \E slot \in Slots : WriteStep(slot)
    \/ \E slot \in Slots : Deliver(slot)

SpecRace == InitRace /\ [][NextRace]_vars

\* --- the browser client against the server ---
InitClient ==
    /\ users = SeededUsers
    /\ issued = SeededTokens
    /\ tasks = <<[NoTask EXCEPT !.id = 1, !.user = "u1", !.status = "pending",
                                !.priority = "medium", !.createdAt = 0]>>
    /\ now = 0
    /\ hits = 0
    /\ counts = NoCounts
    /\ last = NoResp
    /\ inflight = NoneInFlight
    /\ client = NoClient

ClientLoginBodies ==
    {[NoInput EXCEPT !.email = "u1", !.password = pw] : pw \in {"p1", "p2"}}

NextClient ==
    \/ PageLoad
    \/ ClientLogin(ClientLoginBodies)
    \/ ClientToggle
    \/ ClientLogout
    \/ TimerFires
    \/ ClientReceive
    \/ DeactivateUser
    \/ WindowReset

SpecClient == InitClient /\ [][NextClient]_vars

\* --- task creation with bodies that carry more than the schema knows ---
CreateTokens == issued \cup {NoToken}
CreateBodies ==
    {[NoInput EXCEPT !.title = ti, !.status = st, !.completedAt = done,
                     !.user = owner] :
        ti \in {"Buy milk", " "}, st \in {Absent, "completed"},
        done \in {AbsentDate, 0}, owner \in {Absent, "u2"}}

NextCreate ==
    \/ CreateTaskReq(CreateTokens, CreateBodies)
    \/ GetTaskReq(CreateTokens)
    \/ Tick(MaxTime)
    \/ WindowReset

SpecCreate == InitSeeded /\ [][NextCreate]_vars

\* --- requests on ids that name no task ---
\* the id of the task, an id that is well-formed but never given out, and an
\* id that is not an ObjectId
ProbeIds == 1..(MaxTasks + 1) \cup {MalformedId}
ProbeTokens == {SignToken("u1", 0), NoToken}
ProbeCreateBodies ==
    {[NoInput EXCEPT !.title = ti] : ti \in {"Buy milk", " "}}
ProbeUpdateBodies ==
    {[NoInput EXCEPT !.priority = pr] : pr \in {"high", "urgent"}}

IdRequest(tokens, ids, bodies) ==
    \E op \in {"getTask", "updateTask", "deleteTask", "toggleTaskStatus",
                "toggleTaskImportance"} :
        \E token \in tokens, id \in ids :
            \E body \in IF op = "updateTask" THEN bodies ELSE {NoInput} :
                Request(op, token, id, body)

NextProbe ==
    \/ CreateTaskReq(ProbeTokens, ProbeCreateBodies)
    \/ IdRequest(ProbeTokens, ProbeIds, ProbeUpdateBodies)
    \/ WindowReset

SpecProbe == InitSeeded /\ [][NextProbe]_vars

(***************************************************************************)
(* The client auth store (AuthContext.tsx): authReducer and the functions  *)
(* of AuthProvider.  The store is the fields user, token, authIsLoading    *)
(* (state.isLoading) and isAuthenticated of the client.                    *)
(***************************************************************************)
\* faulty variant: LOGOUT clears the flag and keeps user and token
authReducer_logoutKeepsSession(c, type, user, token) ==
    CASE type = "AUTH_START" -> [c EXCEPT !.authIsLoading = TRUE]
      [] type = "AUTH_SUCCESS" ->
           [c EXCEPT !.user = user, !.token = token, !.authIsLoading = FALSE,
                     !.isAuthenticated = TRUE]
      [] type = "AUTH_FAILURE" ->
           [c EXCEPT !.user = NoUser, !.token = NoToken, !.authIsLoading = FALSE,
                     !.isAuthenticated = FALSE]
      [] type = "LOGOUT" ->
           [c EXCEPT !.authIsLoading = FALSE, !.isAuthenticated = FALSE]
      [] type = "UPDATE_PROFILE" -> [c EXCEPT !.user = user]
      [] type = "CLEAR_ERROR" -> [c EXCEPT !.authIsLoading = FALSE]
      [] OTHER -> c

authReducer(c, type, user, token) ==
    CASE type = "AUTH_START" -> [c EXCEPT !.authIsLoading = TRUE]
      [] type = "AUTH_SUCCESS" ->
           [c EXCEPT !.user = user, !.token = token, !.authIsLoading = FALSE,
                     !.isAuthenticated = TRUE]
      [] type \in {"AUTH_FAILURE", "LOGOUT"} ->
           [c EXCEPT !.user = NoUser, !.token = NoToken, !.authIsLoading = FALSE,
                     !.isAuthenticated = FALSE]
      [] type = "UPDATE_PROFILE" -> [c EXCEPT !.user = user]
      [] type = "CLEAR_ERROR" -> [c EXCEPT !.authIsLoading = FALSE]
      [] OTHER -> c

dispatch(c, type) == authReducer(c, type, NoUser, NoToken)

\* faulty variant: the catch block of initializeAuth does not dispatch
authContinue_noFailureDispatch(c, req, ok, resp) ==
    CASE req.op = "getMe" ->
           IF ok THEN authReducer(c, "AUTH_SUCCESS", resp.profile.id, req.token)
           ELSE clearAuthData(c)
      [] req.op \in {"login", "register"} ->
           IF ok THEN authReducer(setAuthToken(c, resp.grant), "AUTH_SUCCESS",
                                  resp.profile.id, resp.grant)
           ELSE dispatch(c, "AUTH_FAILURE")
      [] req.op = "updateProfile" ->
           IF ok THEN authReducer(c, "UPDATE_PROFILE", resp.profile.id, NoToken)
           ELSE c
      [] OTHER -> c

\* the continuation of initializeAuth, login, register and updateProfile after
\* the awaited request: ok is response.success && response.data, otherwise the
\* catch block runs (rejected promise or unsuccessful envelope)
authContinue(c, req, ok, resp) ==
    CASE req.op = "getMe" ->
           IF ok THEN authReducer(c, "AUTH_SUCCESS", resp.profile.id, req.token)
           ELSE dispatch(clearAuthData(c), "AUTH_FAILURE")
      [] req.op \in {"login", "register"} ->
           IF ok THEN authReducer(setAuthToken(c, resp.grant), "AUTH_SUCCESS",
                                  resp.profile.id, resp.grant)
           ELSE dispatch(c, "AUTH_FAILURE")
      [] req.op = "updateProfile" ->
           IF ok THEN authReducer(c, "UPDATE_PROFILE", resp.profile.id, NoToken)
           ELSE c
      [] OTHER -> c

\* the effect of AuthProvider on mount: initializeAuth up to its await
initializeAuth ==
    /\ ~client.mounted
    /\ LET c == [client EXCEPT !.mounted = TRUE, !.location = "/"]
       IN  client' = IF c.lsToken # NoToken
                     THEN send(setAuthToken(dispatch(c, "AUTH_START"), c.lsToken),
                               "getMe", 0, NoInput)
                     ELSE dispatch(c, "CLEAR_ERROR")
    /\ last' = NoResp
    /\ UNCHANGED <<users, issued, tasks, now, hits, counts, inflight>>

\* App and ProtectedRoute render the spinner while state.isLoading, the public
\* pages while not authenticated, the protected pages while authenticated
PublicShown == client.mounted /\ ~client.authIsLoading /\ ~client.isAuthenticated
ProtectedShown == client.mounted /\ ~client.authIsLoading /\ client.isAuthenticated

\* login(formData) / register(formData), up to the await
AuthSubmit(op, bodies) ==
    \E body \in bodies :
        /\ PublicShown
        /\ Len(client.requests) < MaxRequests
        /\ client' = send(dispatch(client, "AUTH_START"), op, 0, body)
        /\ last' = NoResp
        /\ UNCHANGED <<users, issued, tasks, now, hits, counts, inflight>>

\* logout(): the request is sent and not awaited; clearAuthData(); LOGOUT
AuthLogout ==
    /\ ProtectedShown
    /\ Len(client.requests) < MaxRequests
    /\ client' = dispatch(clearAuthData(send(client, "logout", 0, NoInput)),
                          "LOGOUT")
    /\ last' = NoResp
    /\ UNCHANGED <<users, issued, tasks, now, hits, counts, inflight>>

\* updateProfile(formData), up to the await
AuthUpdateProfile ==
    /\ ProtectedShown
    /\ Len(client.requests) < MaxRequests
    /\ client' = send(client, "updateProfile", 0, NoInput)
    /\ last' = NoResp
    /\ UNCHANGED <<users, issued, tasks, now, hits, counts, inflight>>

\* the server answers one of the requests that await a response
AuthResponse(i) ==
    LET req == client.requests[i]
    IN  \E r \in Serve(req.op, req.token, req.id, req.input) :
            /\ hits' = r.hits
            /\ users' = r.users
            /\ issued' = r.issued
            /\ tasks' = r.tasks
            /\ last' = r.resp
            /\ client' = authContinue(
                   responseInterceptor(
                       [client EXCEPT !.requests = RemoveAt(@, i)],
                       req, r.resp.status),
                   req, r.resp.status \in {200, 201}, r.resp)
            /\ UNCHANGED <<now, counts, inflight>>

\* a request gets no response: the network fails or the 10 s timeout of the
\* axios instance expires, and the promise is rejected
AuthNoResponse(i) ==
    LET req == client.requests[i]
    IN  /\ client' = authContinue([client EXCEPT !.requests = RemoveAt(@, i)],
                                  req, FALSE, NoResp)
        /\ last' = [NoResp EXCEPT !.op = req.op, !.token = req.token]
        /\ UNCHANGED <<users, issued, tasks, now, hits, counts, inflight>>

\* the navigation that the 401 interceptor started replaces the document:
\* script state starts afresh, localStorage persists
AuthReload ==
    /\ client.navigating
    /\ client' = [NoClient EXCEPT !.lsToken = client.lsToken,
                                  !.lsUser = client.lsUser]
    /\ last' = NoResp
    /\ UNCHANGED <<users, issued, tasks, now, hits, counts, inflight>>

\* --- the auth store against the server ---
AuthStoreTokens == {NoToken, SignToken("u1", 0), ForgedToken}
AuthStoreLoginBodies ==
    {[NoInput EXCEPT !.email = "u1", !.password = pw] : pw \in {"p1", "p2"}}
AuthStoreRegisterBodies ==
    {[NoInput EXCEPT !.name = "Ann", !.email = u, !.password = "p1"] : u \in Users}

InitAuthStore ==
    /\ users = [u \in Users |->
                  IF u = "u1" THEN [state |-> "active", password |-> Hash("p1")]
                  ELSE [state |-> "none", password |-> ""]]
    /\ issued = {SignToken("u1", 0)}
    /\ tasks = EmptyStore
    /\ now = 0
    /\ hits = 0
    /\ counts = NoCounts
    /\ last = NoResp
    /\ inflight = NoneInFlight
    /\ client \in {[NoClient EXCEPT !.lsToken = token] : token \in AuthStoreTokens}

NextAuthStore ==
    \/ initializeAuth
    \/ AuthSubmit("login", AuthStoreLoginBodies)
    \/ AuthSubmit("register", AuthStoreRegisterBodies)
    \/ AuthLogout
    \/ AuthUpdateProfile
    \/ \E i \in 1..Len(client.requests) : AuthResponse(i)
    \/ \E i \in 1..Len(client.requests) : AuthNoResponse(i)
    \/ AuthReload
    \/ WindowReset

SpecAuthStore == InitAuthStore /\ [][NextAuthStore]_vars

\* every awaited request settles: the server answers, or the request fails or
\* times out
AuthSettle ==
    \E i \in 1..Len(client.requests) : AuthResponse(i) \/ AuthNoResponse(i)

\* initialization and what the public pages can start, while an operator may
\* deactivate the user of the stored token
NextAuthInit ==
    \/ initializeAuth
    \/ AuthSubmit("login", AuthStoreLoginBodies)
    \/ AuthSubmit("register", AuthStoreRegisterBodies)
    \/ \E i \in 1..Len(client.requests) : AuthResponse(i)
    \/ \E i \in 1..Len(client.requests) : AuthNoResponse(i)
    \/ AuthReload
    \/ DeactivateUser
    \/ WindowReset

\* the mount effect runs once the provider is mounted, every request settles,
\* and a navigation that was started completes
SpecAuthInit ==
    /\ InitAuthStore /\ [][NextAuthInit]_vars
    /\ WF_vars(initializeAuth)
    /\ WF_vars(AuthSettle)
    /\ WF_vars(AuthReload)

(***************************************************************************)
(* The client task store (TaskContext): taskReducer and the functions of   *)
(* TaskProvider.  The store is the fields tasks, stats and isLoading of    *)
(* the client.                                                             *)
(***************************************************************************)
\* state.tasks.map(task => task.id === payload.id ? payload : task)
ReplaceById(list, payload) ==
    [k \in 1..Len(list) |-> IF list[k].id = payload.id THEN payload ELSE list[k]]

\* state.tasks.filter(task => task.id !== id)
RECURSIVE FilterOutId(_, _)
FilterOutId(list, id) ==
    IF list = <<>> THEN <<>>
    ELSE IF Head(list).id = id THEN FilterOutId(Tail(list), id)
    ELSE <<Head(list)>> \o FilterOutId(Tail(list), id)

taskReducer(c, type, list, task, stats) ==
    CASE type = "TASKS_LOADING" -> [c EXCEPT !.isLoading = TRUE]
      [] type = "TASKS_SUCCESS" ->
           [c EXCEPT !.tasks = list, !.stats = stats, !.isLoading = FALSE]
      [] type = "TASKS_FAILURE" -> [c EXCEPT !.isLoading = FALSE]
      [] type = "CREATE_TASK_SUCCESS" -> [c EXCEPT !.tasks = <<task>> \o @]
      [] type \in {"UPDATE_TASK_SUCCESS", "TOGGLE_STATUS_SUCCESS",
                   "TOGGLE_IMPORTANCE_SUCCESS"} ->
           [c EXCEPT !.tasks = ReplaceById(@, task)]
      [] type = "DELETE_TASK_SUCCESS" ->
           [c EXCEPT !.tasks = FilterOutId(@, task.id)]
      [] type = "GET_STATS_SUCCESS" -> [c EXCEPT !.stats = stats]
      [] OTHER -> c

\* the continuation of a TaskProvider function after its awaited request; a
\* list response is dispatched with stats: null
taskContinue(c, req, ok, resp) ==
    CASE req.op = "getTasks" ->
           IF ok THEN taskReducer(c, "TASKS_SUCCESS", resp.list, NoTask, NoStats)
           ELSE taskReducer(c, "TASKS_FAILURE", <<>>, NoTask, NoStats)
      [] req.op = "createTask" ->
           IF ok THEN taskReducer(c, "CREATE_TASK_SUCCESS", <<>>, resp.task, NoStats)
           ELSE c
      [] req.op = "updateTask" ->
           IF ok THEN taskReducer(c, "UPDATE_TASK_SUCCESS", <<>>, resp.task, NoStats)
           ELSE c
      [] req.op = "deleteTask" ->
           IF ok THEN taskReducer(c, "DELETE_TASK_SUCCESS", <<>>,
                                  [NoTask EXCEPT !.id = req.id], NoStats)
           ELSE c
      [] req.op = "toggleTaskStatus" ->
           IF ok THEN taskReducer(c, "TOGGLE_STATUS_SUCCESS", <<>>, resp.task, NoStats)
           ELSE c
      [] req.op = "getTaskStats" ->
           IF ok THEN taskReducer(c, "GET_STATS_SUCCESS", <<>>, NoTask, resp.stats)
           ELSE c
      [] OTHER -> c

\* DashboardPage renders its content, not the spinner
DashboardShown ==
    /\ client.location = "/dashboard"
    /\ client.isAuthenticated /\ ~client.isLoading

\* handleCreateTask: createTask(newTask), up to the await
StoreCreate(bodies) ==
    \E body \in bodies :
        /\ DashboardShown
        /\ Len(client.requests) < MaxRequests
        /\ client' = send(client, "createTask", 0, body)
        /\ last' = NoResp
        /\ UNCHANGED <<users, issued, tasks, now, hits, counts, inflight>>

\* handleToggleStatus / handleDeleteTask on a task of the list, up to the await
StoreWrite(op) ==
    \E k \in 1..Len(client.tasks) :
        /\ DashboardShown
        /\ Len(client.requests) < MaxRequests
        /\ client' = send(client, op, client.tasks[k].id, NoInput)
        /\ last' = NoResp
        /\ UNCHANGED <<users, issued, tasks, now, hits, counts, inflight>>

\* the server handles one of the requests; its response is on the way
StoreServe(i) ==
    LET req == client.requests[i]
    IN  /\ ~req.served
        /\ \E r \in Serve(req.op, req.token, req.id, req.input) :
              /\ hits' = r.hits
              /\ users' = r.users
              /\ issued' = r.issued
              /\ tasks' = r.tasks
              /\ client' = [client EXCEPT !.requests[i].served = TRUE,
                                          !.requests[i].resp = r.resp]
        /\ last' = NoResp
        /\ UNCHANGED <<now, counts, inflight>>

\* a response arrives, in any order, and the awaiting function continues
StoreArrive(i) ==
    LET req == client.requests[i]
    IN  /\ req.served
        /\ client' = taskContinue(
               responseInterceptor([client EXCEPT !.requests = RemoveAt(@, i)],
                                   req, req.resp.status),
               req, req.resp.status \in {200, 201}, req.resp)
        /\ last' = req.resp
        /\ UNCHANGED <<users, issued, tasks, now, hits, counts, inflight>>

\* --- the task store of a user who has just logged in ---
TaskStoreBodies == {[NoInput EXCEPT !.title = "Buy milk"]}

\* AUTH_SUCCESS of a login has been rendered: the dashboard is mounted and has
\* called getTasks, the timer of the App effect is running
InitTaskStore ==
    /\ users = SeededUsers
    /\ issued = SeededTokens
    /\ tasks = EmptyStore
    /\ now = 0
    /\ hits = 0
    /\ counts = NoCounts
    /\ last = NoResp
    /\ inflight = NoneInFlight
    /\ client = authSuccess(
           authReducer(setAuthToken([NoClient EXCEPT !.mounted = TRUE,
                                                     !.location = "/login"],
                                    SignToken("u1", 0)),
                       "AUTH_SUCCESS", "u1", SignToken("u1", 0)))

NextTaskStore ==
    \/ TimerFires
    \/ StoreCreate(TaskStoreBodies)
    \/ StoreWrite("toggleTaskStatus")
    \/ StoreWrite("deleteTask")
    \/ \E i \in 1..Len(client.requests) : StoreServe(i)
    \/ \E i \in 1..Len(client.requests) : StoreArrive(i)
    \/ WindowReset

SpecTaskStore == InitTaskStore /\ [][NextTaskStore]_vars

\* --- saves of a user document ---
PasswordEmails == {"u1", "u2"}
PasswordTokens == {SignToken("u1", 0), NoToken}

NextPassword ==
    \/ RegisterReq(PasswordEmails)
    \/ LoginReq(PasswordEmails)
    \/ UpdateProfileReq(PasswordTokens)
    \/ ChangePasswordReq(PasswordTokens)
    \/ WindowReset

SpecPassword == InitLogin /\ [][NextPassword]_vars

\* --- two users, bodies that name an owner ---
OwnerTokens == {SignToken("u1", 0), SignToken("u2", 0)}
OwnerCreateBodies ==
    {[NoInput EXCEPT !.title = "Buy milk", !.user = u] : u \in {Absent, "u2"}}
OwnerUpdateBodies ==
    {[NoInput EXCEPT !.priority = "high", !.user = u] : u \in {Absent, "u1", "u2"}}

NextOwner ==
    \/ CreateTaskReq(OwnerTokens, OwnerCreateBodies)
    \/ UpdateTaskReq(OwnerTokens, OwnerUpdateBodies)
    \/ DeleteTaskReq(OwnerTokens)
    \/ ToggleTaskStatusReq(OwnerTokens)
    \/ ToggleTaskImportanceReq(OwnerTokens)
    \/ WindowReset

SpecOwner == InitSeeded /\ [][NextOwner]_vars

\* --- toggles and updates while the clock advances ---
ImportanceTokens == {SignToken("u1", 0), SignToken("u2", 0)}
ImportanceCreateBodies ==
    {[NoInput EXCEPT !.title = "Buy milk", !.isImportant = imp] :
        imp \in {Absent, JsTrue}}
ImportanceUpdateBodies == {[NoInput EXCEPT !.status = "completed"]}

NextImportance ==
    \/ CreateTaskReq(ImportanceTokens, ImportanceCreateBodies)
    \/ ToggleTaskImportanceReq(ImportanceTokens)
    \/ ToggleTaskStatusReq(ImportanceTokens)
    \/ UpdateTaskReq(ImportanceTokens, ImportanceUpdateBodies)
    \/ Tick(MaxTime)
    \/ WindowReset

SpecImportance == InitSeeded /\ [][NextImportance]_vars

(***************************************************************************)
(* Properties of the task routes on a growing store (Spec)                 *)
(***************************************************************************)
OwnerToggled == last.op = "toggleTaskStatus" /\ last.status = 200

\* every accepted toggle flips the stored status and leaves completedAt set
\* exactly when the new status is completed
C1_Flip ==
    OwnerToggled =>
        /\ last.before.status \in Statuses
        /\ last.task.status \in Statuses \ {last.before.status}
        /\ findById(tasks, last.id) = last.task
        /\ (last.task.completedAt # NullDate) <=> (last.task.status = "completed")

\* a toggle that directly follows a toggle of the same task restores the status
\* the task had before the first one
C1_TwiceRestores ==
    (OwnerToggled /\ OwnerToggled' /\ last'.id = last.id)
        => last'.task.status = last.before.status

\* C1: for every task and every sequence of toggle-status requests by its
\* owner, run one after another, each toggle flips the status between pending
\* and completed, two consecutive toggles restore the original status, and
\* after every toggle completedAt is non-null iff the status is completed
C1_ToggleStatus == [](C1_Flip) /\ [][C1_TwiceRestores]_vars

C1_Witness ==
    /\ OwnerToggled
    /\ last.before.status = "completed"
    /\ last.task.status = "pending"
    /\ last.task.completedAt = NullDate

\* C2: in every stored state, after any sequence of create, full update,
\* toggle-status and toggle-importance requests, a task's completedAt is
\* non-null exactly when its status is completed
C2_CompletedAtIffCompleted ==
    \A d \in Documents(tasks) :
        (d.completedAt # NullDate) <=> (d.status = "completed")

\* the task a request on /:id addresses: as the handler loaded it, or as stored
\* when no handler ran
Target == IF last.before # NoTask THEN last.before ELSE findById(tasks, last.id)

IdOps ==
    {"getTask", "updateTask", "deleteTask", "toggleTaskStatus",
     "toggleTaskImportance"}

\* an authenticated user addresses a stored task of another user
NonOwnerRequest ==
    /\ last.op \in IdOps
    /\ last.caller \in Users
    /\ Target # NoTask
    /\ Target.user # last.caller

\* C3 as stated: for every stored task and every authenticated user who is not
\* its owner, each of get, update, delete, toggle-status and toggle-importance
\* on that task id answers 403, never 200 and never 404
C3_NonOwnerAlways403 == NonOwnerRequest => last.status = 403

\* C3 amended: a non-owner's get, delete, toggle-status and toggle-importance,
\* and a non-owner's update whose body passes the update schema, answer 403;
\* an update whose body violates the schema answers 400; none answers 200 or 404
C3_NonOwner403 ==
    NonOwnerRequest =>
        /\ last.status \notin {200, 404}
        /\ tasks[last.id] = Target
        /\ IF last.op = "updateTask" /\ updateTaskSchema(last.input).errors # {}
           THEN last.status = 400
           ELSE last.status = 403

C3_Witness ==
    /\ NonOwnerRequest
    /\ last.op = "updateTask"
    /\ last.status = 403

\* stages run in the order given: every stage of the trace is in the order, and
\* stages appear in the trace as they appear in the order
InOrder(trace, order) ==
    /\ \A i \in 1..Len(trace) : \E k \in 1..Len(order) : order[k] = trace[i]
    /\ \A i, j \in 1..Len(trace) :
          i < j => \A k, l \in 1..Len(order) :
                      (order[k] = trace[i] /\ order[l] = trace[j]) => k < l

TaskOps == IdOps \cup {"getTasks", "getTaskStats", "createTask"}

\* the request violates its route's schema and carries no acceptable token
FailsBoth ==
    /\ last.op \in TaskOps
    /\ HasSchema(last.op)
    /\ validateRequest(last.op, last.input, now).errors # {}
    /\ ~protect(last.token, now, users).ok
    /\ last.status # 429

\* C10 as stated: on every task route the steps run in the order rate limit,
\* schema validation, token verification, ownership check, handler; a request
\* that fails both validation and token verification is answered by validation
C10_ValidationBeforeToken ==
    last.op \in TaskOps =>
        /\ InOrder(last.stages,
                   <<"rateLimit", "validate", "protect", "ownerCheck", "handler">>)
        /\ FailsBoth => last.status = 400

\* C10 amended: on every task route the steps run in the order rate limit,
\* token verification, schema validation (on the three routes that have a
\* schema), handler, and the handler itself checks ownership after it loaded
\* the task; a request that fails both validation and token verification is
\* answered 401 by token verification, and validation never sees it
C10_TokenBeforeValidation ==
    last.op \in TaskOps =>
        /\ InOrder(last.stages,
                   <<"rateLimit", "protect", "validate", "handler", "ownerCheck">>)
        /\ last.stages # <<>> /\ last.stages[1] = "rateLimit"
        /\ \A i \in 1..Len(last.stages) :
              /\ last.stages[i] = "validate" => HasSchema(last.op)
              /\ last.stages[i] = "handler" =>
                    /\ last.stages[i - 1] = (IF HasSchema(last.op) THEN "validate"
                                             ELSE "protect")
                    /\ "protect" \in {last.stages[k] : k \in 1..i}
        /\ FailsBoth => /\ last.status = 401
                        /\ last.stages = <<"rateLimit", "protect">>

C10_Witness ==
    /\ FailsBoth
    /\ last.op = "updateTask"
    /\ last.status = 401

(***************************************************************************)
(* Properties of GET /tasks (SpecList)                                     *)
(***************************************************************************)
ListAnswered == last.op = "getTasks" /\ last.status = 200
Returned == {last.list[i] : i \in 1..Len(last.list)}

\* the caller's stored tasks that have the status and priority of the query
OwnMatching ==
    {d \in Documents(tasks) :
        /\ d.user = last.caller
        /\ last.input.status # Absent => d.status = last.input.status
        /\ last.input.priority # Absent => d.priority = last.input.priority}

\* C4: for every combination of the status and priority query filters, GET
\* /tasks returns exactly the caller's own tasks whose status and priority
\* equal the supplied values; no task of another user is in the result, and
\* count is the number of returned tasks
C4_StatusPriorityFilters ==
    ListAnswered =>
        /\ last.caller = last.token.sub
        /\ Returned \subseteq OwnMatching
        /\ last.input.isImportant = Absent => Returned = OwnMatching
        /\ Cardinality(Returned) = Len(last.list)
        /\ last.count = Len(last.list)

C4_Witness ==
    /\ ListAnswered
    /\ last.input.status # Absent
    /\ last.input.priority # Absent
    /\ last.input.isImportant = Absent
    /\ Returned # {}
    /\ \E d \in Documents(tasks) \ Returned : d.user = last.caller

\* C5: with isImportant=true the list holds exactly the caller's tasks whose
\* importance flag is true, with isImportant=false exactly those whose flag is
\* false, and with the filter absent the flag does not restrict the result
C5_ImportanceFilter ==
    ListAnswered =>
        Returned =
            {d \in OwnMatching :
                /\ last.input.isImportant = StrTrue => d.isImportant
                /\ last.input.isImportant = StrFalse => ~d.isImportant}

\* position of a Date in an ascending order that puts null last / first
DueRankNullsLast(d)  == IF d = NullDate THEN 1000000 ELSE d
DueRankNullsFirst(d) == IF d = NullDate THEN -1000000 ELSE d

\* a must not come after b when they differ in a sort key: importance
\* descending, then due-date rank ascending, then creation time descending
Misordered(a, b, rank(_)) ==
    \/ b.isImportant /\ ~a.isImportant
    \/ /\ a.isImportant = b.isImportant
       /\ rank(b.dueDate) < rank(a.dueDate)
    \/ /\ a.isImportant = b.isImportant
       /\ a.dueDate = b.dueDate
       /\ b.createdAt > a.createdAt

ExactRate(c, t) == (200 * c + t) \div (2 * t)

\* C7: in every statistics response completionRate equals
\* round(100 * completed / total) when total > 0 and 0 when total = 0; so it
\* lies in 0..100
C7_CompletionRate ==
    last.stats.completionRate # NoStats.completionRate =>
        /\ last.stats.completionRate =
              IF last.stats.total > 0
              THEN ExactRate(last.stats.completed, last.stats.total) ELSE 0
        /\ last.stats.completionRate \in 0..100

(***************************************************************************)
(* Properties of token verification (SpecAuth)                             *)
(***************************************************************************)
ProtectedOps == TaskOps \cup {"logout", "changePassword", "getMe"}

Ran(stage) == \E i \in 1..Len(last.stages) : last.stages[i] = stage

\* the token is signed by the server, not expired, and names an active user
Acceptable(token) ==
    /\ token \in issued
    /\ now < token.iat + TokenTTL
    /\ token.sub \in Users
    /\ users[token.sub].state = "active"

\* C8: the handler of a protected route runs only when the request carries a
\* token with a valid signature, not expired, naming a user who exists and is
\* active; in each other case (no token, invalid, expired, unknown user,
\* deactivated user) protect answers 401 and the handler is not invoked
C8_ProtectGuardsHandler ==
    last.op \in ProtectedOps =>
        /\ Ran("handler") => Acceptable(last.token) /\ last.caller = last.token.sub
        /\ (Ran("protect") /\ ~Acceptable(last.token)) =>
              /\ last.status = 401
              /\ ~Ran("handler")
              /\ last.caller = NoUser

C8_Witness ==
    /\ last.op = "getTaskStats"
    /\ last.status = 401
    /\ last.token \in issued
    /\ now < last.token.iat + TokenTTL
    /\ users[last.token.sub].state = "inactive"

\* C9: a token issued to a user who stays existing and active is accepted on
\* every protected request until its expiry, whatever logout, password-change
\* or later login requests happen in between
C9_NoRevocation ==
    /\ \A token \in issued :
          Acceptable(token) => protect(token, now, users).ok
    /\ (last.op \in ProtectedOps /\ Ran("protect") /\ Acceptable(last.token)) =>
          /\ Ran("handler")
          /\ last.caller = last.token.sub

\* the password was just changed with one token while an earlier token of the
\* same user is still within its lifetime
C9_Witness ==
    /\ last.op = "changePassword"
    /\ last.status = 200
    /\ last.input.newPassword # last.input.password
    /\ \E token \in issued :
          /\ token.sub = last.caller
          /\ token.iat < last.token.iat
          /\ Acceptable(token)

(***************************************************************************)
(* Properties of schema validation (SpecValidate)                          *)
(***************************************************************************)
\* the rules of the route's schema, one by one, each with its message
SchemaRules(op, in, t) ==
    LET titleRules ==
            {<<in.title = "", "Task title cannot be empty">>}
        priorityRule ==
            <<in.priority \notin {Absent, "low", "medium", "high"},
              "Priority must be low, medium, or high">>
        statusRule ==
            <<in.status \notin {Absent, "pending", "completed"},
              "Status must be pending or completed">>
        booleanRule ==
            <<in.isImportant \notin {Absent, JsTrue, JsFalse, StrTrue, StrFalse},
              "\"isImportant\" must be a boolean">>
        emailRules ==
            {<<in.email = Absent, "Email is required">>,
             <<in.email = "", "Email cannot be empty">>,
             <<in.email \notin {Absent, ""} \cup EmailStrings,
               "Please provide a valid email address">>}
        passwordRules ==
            {<<in.password = Absent, "Password is required">>,
             <<in.password = "", "Password cannot be empty">>}
    IN  CASE op = "createTask" ->
               titleRules \cup {priorityRule, booleanRule}
               \cup {<<in.title = Absent, "Task title is required">>,
                     <<in.dueDate >= 0 /\ in.dueDate <= t,
                       "Due date must be in the future">>}
          [] op = "updateTask" -> titleRules \cup {statusRule, priorityRule, booleanRule}
          [] op = "getTasks"   -> {statusRule, priorityRule, booleanRule}
          [] op = "register"   ->
               emailRules \cup passwordRules
               \cup {<<in.name = Absent, "Name is required">>,
                     <<in.name = "", "Name cannot be empty">>,
                     <<in.name \in ShortNames,
                       "Name must be at least 2 characters long">>,
                     <<in.password \in ShortPasswords,
                       "Password must be at least 6 characters long">>}
          [] op = "login"      -> emailRules \cup passwordRules
          [] OTHER             -> {}

Violated(op, in, t) == {r[2] : r \in {q \in SchemaRules(op, in, t) : q[1]}}

RefusedByValidation(resp) ==
    /\ resp.stages # <<>>
    /\ resp.stages[Len(resp.stages)] = "validate"

\* a validated route answers 400 exactly when some rule is violated, then with
\* the messages of all violated rules and without the handler
C11_AllMessages ==
    /\ RefusedByValidation(last) =>
          /\ last.status = 400
          /\ last.errors = Violated(last.op, last.input, now)
          /\ last.errors # {}
    /\ (Ran("validate") /\ Violated(last.op, last.input, now) # {}) =>
          /\ RefusedByValidation(last)
          /\ ~Ran("handler")

\* a request refused by validation leaves the collections as they were
C11_StoreUnchanged ==
    RefusedByValidation(last') =>
        /\ tasks' = tasks
        /\ users' = users
        /\ issued' = issued

StoredHashes == {users[u].password : u \in Users} \ {""}

\* C12: no response carries a user's password hash: the user object that
\* token verification attaches to the request and the profile returned to
\* the client have no password field, and no other part of the response
\* holds a stored hash
C12_NoPasswordInResponse ==
    /\ last.reqUser.password = Absent
    /\ last.profile.password = Absent
    /\ StoredHashes \cap ({last.message} \cup last.errors) = {}

\* a login answered with the profile of a user whose hash is stored
C12_Witness ==
    /\ last.op = "login"
    /\ last.status = 200
    /\ last.profile.id = "u1"
    /\ users["u1"].password \in {Hash(pw) : pw \in Passwords}

(***************************************************************************)
(* Properties of login (SpecLogin)                                         *)
(***************************************************************************)
\* the address of the attempt is that of a stored user
KnownEmail(email) ==
    /\ ToLower(email) \in Users
    /\ users[ToLower(email)].state \in {"active", "inactive"}

\* an attempt, admitted by the limiter, that names an unknown address or gives
\* a wrong password for a known one
FailedLogin ==
    /\ last.op = "login"
    /\ Ran("validate")
    /\ \/ ~KnownEmail(last.input.email)
       \/ users[ToLower(last.input.email)].password # Hash(last.input.password)

\* C13 as stated: every login attempt that names an unknown email or gives a
\* wrong password for a known email is answered 401 with one identical
\* message, for all email and password values
C13_Always401 ==
    FailedLogin => last.status = 401 /\ last.message = "Invalid credentials"

WellFormedLogin ==
    last.input.email \in EmailStrings /\ last.input.password # ""

\* C13 amended: such an attempt is answered 401 "Invalid credentials" when its
\* body passes the login schema, and 400 with the schema's messages, which
\* depend on the body alone, when it does not; in neither case a token or a
\* profile is returned
C13_UniformFailure ==
    FailedLogin =>
        /\ last.grant = NoToken
        /\ last.profile = NoProfile
        /\ IF WellFormedLogin
           THEN /\ last.status = 401
                /\ last.message = "Invalid credentials"
                /\ last.errors = {}
           ELSE /\ last.status = 400
                /\ last.message = "Validation failed"
                /\ last.errors = Violated("login", last.input, now)

\* a wrong password for the registered address, in capitals
C13_Witness ==
    /\ last.op = "login"
    /\ last.status = 401
    /\ last.input.email = "U1"
    /\ last.input.password = "p2"
    /\ users["u1"].state = "active"

(***************************************************************************)
(* Properties of concurrent registrations (SpecRegister)                   *)
(***************************************************************************)
\* a user document is inserted only under an address that no stored user has
\* (addresses are stored in lower case), so no two stored users share one
C14_InsertOnlyNew ==
    \A u \in Users :
        users'[u] # users[u] => users[u].state = "none" /\ users'[u].state = "active"

\* a registration answers 201 exactly when it inserted its user, and 400
\* otherwise; it answers 400 when its address, ignoring case, was stored
\* already when the request arrived
C14_DuplicateRefused ==
    \A s \in Slots :
        inflight[s].pc = "done" =>
            /\ inflight[s].status \in {201, 400}
            /\ inflight[s].status = 201 <=> inflight[s].writes = 1
            /\ inflight[s].existed => inflight[s].status = 400

\* C14: after any sequence of registrations, including concurrent ones, no
\* two stored users have emails that are equal ignoring letter case; a
\* registration whose email matches an existing user's email ignoring case
\* fails with 400 and creates no user
C14_UniqueEmail == [](C14_DuplicateRefused) /\ [][C14_InsertOnlyNew]_vars

\* two registrations of one address, in different case, both passed the
\* lookup; one created the user and the other met the unique index
C14_Witness ==
    /\ inflight[1].pc = "done" /\ inflight[2].pc = "done"
    /\ inflight[1].status = 201
    /\ inflight[2].status = 400
    /\ inflight[2].message = "Duplicate field value: u1. Please use another value."
    /\ inflight[1].input.email # inflight[2].input.email

(***************************************************************************)
(* Property of statistics under interleaving (SpecStatsRace)               *)
(***************************************************************************)
\* C15: each statistics response describes a single store state, so
\* completed + pending = total and high + medium + low = total hold in every
\* statistics response, and the statistics block of a list response is
\* consistent in the same way, also when other requests interleave
C15_StatsConsistent ==
    /\ (last.op = "getTaskStats" /\ last.status = 200) =>
          /\ last.stats.completed + last.stats.pending = last.stats.total
          /\ last.stats.high + last.stats.medium + last.stats.low = last.stats.total
    /\ (last.op = "getTasks" /\ last.status = 200) =>
          /\ last.stats.completed + last.stats.pending = last.stats.total
          /\ last.count <= last.stats.total

(***************************************************************************)
(* Properties of two requests handled concurrently (SpecPair)              *)
(***************************************************************************)
Flip(status) == IF status = "pending" THEN "completed" ELSE "pending"

\* slots a and b hold the only two requests so far, a arrived first, and both
\* handlers have finished
FinishedPair(a, b) ==
    /\ a # b
    /\ inflight[a].pc = "done" /\ inflight[b].pc = "done"
    /\ inflight[a].alone /\ ~inflight[b].alone
    /\ \A other \in Slots \ {a, b} : inflight[other].pc = "idle"

\* the responses and the final store of handling f and then g, one after the
\* other, on the store ts
SerialRuns(ts, f, g) ==
    UNION {{<<of, og>> :
               og \in Controller(g.op, of.tasks, g.caller, g.id, g.input, now)} :
           of \in Controller(f.op, ts, f.caller, f.id, f.input, now)}

Answered(f, o) ==
    f.status = o.status /\ f.message = o.message /\ f.task = o.task

\* the pair in a and b ended as one of its two serial orders would have
AsIfSerial(a, b) ==
    LET f == inflight[a]
        g == inflight[b]
    IN  \/ \E run \in SerialRuns(f.began, f, g) :
              Answered(f, run[1]) /\ Answered(g, run[2]) /\ tasks = run[2].tasks
        \/ \E run \in SerialRuns(f.began, g, f) :
              Answered(g, run[1]) /\ Answered(f, run[2]) /\ tasks = run[2].tasks

RacedToggles(a, b) ==
    /\ a # b
    /\ inflight[a].op = "toggleTaskStatus" /\ inflight[b].op = "toggleTaskStatus"
    /\ inflight[a].pc = "done" /\ inflight[b].pc = "done"
    /\ inflight[a].status = 200 /\ inflight[b].status = 200
    /\ inflight[a].doc = inflight[b].doc

C16_SameAnswer ==
    \A a, b \in Slots :
        RacedToggles(a, b) =>
            /\ inflight[a].task.status = Flip(inflight[a].doc.status)
            /\ inflight[b].task.status = inflight[a].task.status
            /\ inflight[b].message = inflight[a].message
            /\ FinishedPair(a, b) => tasks[1].status = inflight[a].task.status

C16_WriteStep ==
    \A s \in Slots :
        (/\ inflight[s].op = "toggleTaskStatus"
         /\ inflight[s].pc = "write" /\ inflight'[s].pc = "done"
         /\ findById(tasks, inflight[s].id) # NoTask)
        => /\ inflight'[s].status = 200
           /\ tasks'[inflight[s].id].status = Flip(inflight[s].doc.status)

C17_AtMostOneWrite == \A s \in Slots : inflight[s].writes <= 1

\* the step in which slot s saves a toggled status
ToggleSaved(s) ==
    /\ inflight[s].op = "toggleTaskStatus"
    /\ inflight[s].pc = "write" /\ inflight'[s].pc = "done"
    /\ inflight'[s].status = 200

C17_StatusWithCompletedAt ==
    \A s \in Slots :
        ToggleSaved(s) =>
            /\ tasks'[inflight[s].id].status = inflight'[s].task.status
            /\ tasks'[inflight[s].id].completedAt = inflight'[s].task.completedAt

\* C17: every request performs at most one store write, and the write of a
\* toggle-status stores the new status together with the new completedAt, so
\* that a stored task never has the toggled status with a completedAt other
\* than the one the toggle computed
C17_ToggleWritesBoth ==
    [](C17_AtMostOneWrite) /\ [][C17_StatusWithCompletedAt]_vars

(***************************************************************************)
(* Properties of the browser client (SpecClient)                           *)
(***************************************************************************)
\* a 401 has just been received
C18_Cleared ==
    client.status = 401 =>
        /\ client.lsToken = NoToken /\ client.lsUser = NoUser
        /\ client.navigating

C18_NoLaterOldToken ==
    (/\ Len(client'.requests) > 0
     /\ Len(client'.requests) >= Len(client.requests)
     /\ client'.requests # client.requests
     /\ client'.rejected = client.rejected
     /\ client.rejected # NoToken)
    => client'.requests[Len(client'.requests)].token # client.rejected

\* C18: whenever the client receives a 401 response, the stored token and the
\* stored user are removed from local storage and the client is sent to the
\* login page, and no request sent afterwards carries the token that was
\* rejected
C18_Unauthorized == [](C18_Cleared) /\ [][C18_NoLaterOldToken]_vars

\* C19: the client never has two task-list fetches in flight at the same time
C19_OneListFetch ==
    Cardinality({i \in 1..Len(client.requests) :
                    client.requests[i].op = "getTasks"}) <= 1

(***************************************************************************)
(* Property of task creation (SpecCreate)                                  *)
(***************************************************************************)
\* the created task of a 201 response
C20_CreatedTask ==
    (last.op = "createTask" /\ last.status = 201) =>
        /\ last.task.status = "pending"
        /\ last.task.completedAt = NullDate
        /\ last.task.user = last.caller
        /\ last.caller = last.token.sub

\* C20: every create-task request that passed the limiter, protect and the
\* create schema answers 201 with a task whose status is pending, whose
\* completedAt is null and whose owner is the authenticated caller, whatever
\* fields the body supplies
C20_CreateDefaults ==
    /\ (last.op = "createTask" /\ Ran("handler")) => last.status = 201
    /\ C20_CreatedTask

(***************************************************************************)
(* Properties of requests on missing tasks and of failures (SpecProbe)     *)
(***************************************************************************)
\* the request about to be answered reached its handler and its id names no
\* stored task
C21_MissingAnswered ==
    /\ last'.op \in IdOps
    /\ \E i \in 1..Len(last'.stages) : last'.stages[i] = "handler"
    /\ findById(tasks, last'.id) = NoTask

\* C21: for every task id that matches no stored task (never created, or
\* already deleted), get, update, delete, toggle-status and toggle-importance
\* by an authenticated user answer 404 and leave the store unchanged
C21_Missing404 ==
    [][C21_MissingAnswered => (last'.status = 404 /\ tasks' = tasks)]_vars

\* C22: a failure that the store raises inside a task handler is answered by
\* the terminal error handler with its classified status: 404 for an id that
\* is not well-formed, 400 for a model validation failure
C22_FailuresClassified ==
    /\ (last.op \in IdOps /\ Ran("handler") /\ CastFails(last.id)) =>
          last.status = errorHandler([NoError EXCEPT !.name = "CastError"]).status
    /\ (last.op = "createTask" /\ Ran("handler")
          /\ TaskValidationFails(validateRequest("createTask", last.input, now).value)) =>
          last.status = errorHandler([NoError EXCEPT !.name = "ValidationError"]).status

(***************************************************************************)
(* Properties of toggle-importance (SpecImportance)                        *)
(***************************************************************************)
ImportanceToggled == last.op = "toggleTaskImportance" /\ last.status = 200

\* C23 (as stated): a toggle-importance request by the owner negates the
\* task's isImportant flag and leaves every other stored field unchanged
C23_OnlyFlagChanges ==
    ImportanceToggled =>
        /\ last.task = [last.before EXCEPT !.isImportant = ~@]
        /\ findById(tasks, last.id) = last.task

C23_FlagAndUpdatedAt ==
    ImportanceToggled =>
        /\ last.before.user = last.caller
        /\ last.task = [last.before EXCEPT !.isImportant = ~@, !.updatedAt = now]
        /\ findById(tasks, last.id) = last.task

C23_TwiceRestores ==
    (ImportanceToggled /\ ImportanceToggled' /\ last'.id = last.id)
        => last'.task.isImportant = last.before.isImportant

\* C23 (amended): a toggle-importance request by the owner negates the task's
\* isImportant flag, sets updatedAt to the time of the save and leaves status,
\* completedAt, owner, priority and every other stored field unchanged; two
\* consecutive toggle-importance requests restore the original flag
C23_ToggleImportance == [](C23_FlagAndUpdatedAt) /\ [][C23_TwiceRestores]_vars

\* a completed, important task is unmarked at a later time than its last save
C23_Witness ==
    /\ ImportanceToggled
    /\ last.before.isImportant /\ ~last.task.isImportant
    /\ last.before.status = "completed"
    /\ last.task.completedAt = last.before.completedAt
    /\ last.task.updatedAt > last.before.updatedAt

(***************************************************************************)
(* Ownership of stored tasks (SpecOwner)                                   *)
(***************************************************************************)
\* a task enters the store owned by the caller of the create request
C24_CreatedByCaller ==
    \A id \in DOMAIN tasks' :
        id \notin DOMAIN tasks =>
            /\ last'.op = "createTask"
            /\ tasks'[id].user = last'.caller
            /\ last'.caller = last'.token.sub

\* a stored task is changed or removed only by a request of its owner, and a
\* change keeps the owner
C24_ChangedByOwner ==
    \A id \in DOMAIN tasks :
        (tasks[id] # NoTask /\ tasks'[id] # tasks[id]) =>
            /\ tasks[id].user = last'.caller
            /\ last'.caller = last'.token.sub
            /\ tasks'[id] # NoTask => tasks'[id].user = tasks[id].user

C24_ForbiddenKeepsStore == (last' # last /\ last'.status = 403) => tasks' = tasks

\* C24: after any sequence of requests by any users every stored task's owner
\* is the user who created it, no request authenticated as one user modifies
\* or deletes a task owned by another user, and a request answered 403 leaves
\* the store exactly as it was
C24_OwnershipKept ==
    [][C24_CreatedByCaller /\ C24_ChangedByOwner /\ C24_ForbiddenKeepsStore]_vars

\* a user asks PUT to hand another user's task over to themself and is refused
C24_Witness ==
    /\ last.op = "updateTask"
    /\ last.status = 403
    /\ last.input.user = last.caller
    /\ findById(tasks, last.id) # NoTask
    /\ findById(tasks, last.id).user # last.caller

(***************************************************************************)
(* The response of PUT /tasks/:id under concurrent requests (SpecRace)     *)
(***************************************************************************)
\* the handler in the slot answers 200 to an update in this step
C25_UpdateAnswers200(slot) ==
    /\ inflight[slot].pc = "write"
    /\ inflight'[slot].pc = "done"
    /\ inflight'[slot].op = "updateTask"
    /\ inflight'[slot].status = 200

\* C25: whenever PUT /tasks/:id answers 200 the response carries the updated
\* task, never a null task, and that task is stored and owned by the caller,
\* also when a delete of the same task runs between the handler's ownership
\* check and its write
C25_UpdateCarriesTask ==
    [][\A slot \in Slots :
          C25_UpdateAnswers200(slot) =>
              /\ inflight'[slot].task # NoTask
              /\ findById(tasks', inflight'[slot].id) = inflight'[slot].task
              /\ inflight'[slot].task.user = inflight'[slot].caller]_vars

(***************************************************************************)
(* Properties of the client auth store (SpecAuthStore)                     *)
(***************************************************************************)
\* C26: in every reachable state of the client auth store isAuthenticated is
\* true if and only if both user and token are non-null, for every order in
\* which login, register, logout, profile-update and auth-initialization
\* responses arrive
C26_AuthenticatedIffUserAndToken ==
    client.isAuthenticated <=> (client.user # NoUser /\ client.token # NoToken)

\* a profile-update response has arrived after logout: the store holds the
\* user of the response and no token
C26_Witness ==
    /\ last.op = "updateProfile" /\ last.status = 200
    /\ ~client.isAuthenticated
    /\ client.user # NoUser
    /\ client.token = NoToken

(***************************************************************************)
(* Properties of the client task store (SpecTaskStore)                     *)
(***************************************************************************)
ListedIds(list) == {list[k].id : k \in 1..Len(list)}

C27_NoDuplicate ==
    \A j, k \in 1..Len(client.tasks) :
        client.tasks[j].id = client.tasks[k].id => j = k

\* a task of the list that is still stored on the server stays in the list
C27_NoLoss ==
    \A id \in ListedIds(client.tasks) :
        findById(tasks', id) # NoTask => id \in ListedIds(client'.tasks)

\* C27: the client task list never holds two entries with the same task id and
\* never loses a task whose creation the server acknowledged, for every
\* interleaving of a list-fetch response with create, update, delete and
\* toggle responses
C27_ListFaithful == [](C27_NoDuplicate) /\ [][C27_NoLoss]_vars

\* C28: once the client has stored statistics from a successful statistics
\* response, a successful task-list fetch leaves them unchanged
C28_ListKeepsStats ==
    [][(/\ client.stats # NoStats
        /\ last'.op = "getTasks" /\ last'.status = 200)
       => client'.stats = client.stats]_vars

(***************************************************************************)
(* Auth initialization (SpecAuthInit)                                      *)
(***************************************************************************)
\* initializeAuth has run and its profile request, if any, has settled
C29_InitSettled ==
    \/ /\ ~client.mounted /\ client'.mounted /\ client.lsToken = NoToken
    \/ /\ last'.op = "getMe" /\ Len(client'.requests) < Len(client.requests)

C29_InitOutcome ==
    C29_InitSettled =>
        /\ ~client'.authIsLoading
        /\ IF last'.op = "getMe" /\ last'.status = 200
           THEN client'.isAuthenticated /\ client'.lsToken = last'.token
           ELSE /\ ~client'.isAuthenticated
                /\ client'.lsToken = NoToken /\ client'.header = NoToken
                /\ client'.user = NoUser /\ client'.token = NoToken

\* C29: client auth initialization always finishes: from isLoading = true the
\* auth store eventually reaches isLoading = false, whether no token is
\* stored or a token is stored and the profile request succeeds or fails; and
\* when it fails the stored token is removed and the store is unauthenticated
C29_InitFinishes ==
    /\ client.authIsLoading ~> ~client.authIsLoading
    /\ [][C29_InitOutcome]_vars

\* the profile request of a stored token was refused
C29_Witness ==
    /\ last.op = "getMe" /\ last.status = 401
    /\ client.mounted /\ ~client.authIsLoading /\ ~client.isAuthenticated
    /\ client.lsToken = NoToken

(***************************************************************************)
(* The stored password hash (SpecPassword)                                 *)
(***************************************************************************)
\* the passwords that a stored hash matches
Matching(stored) == {pw \in Passwords : matchPassword(pw, stored)}

\* a step changes a stored hash only by setting the password: a registration
\* or a password change, and the new hash matches the password that was sent
C30_ChangedBySetting ==
    \A u \in Users :
        users'[u].password # users[u].password =>
            /\ last'.status \in {200, 201}
            /\ \/ /\ last'.op = "register"
                  /\ Matching(users'[u].password) = {last'.input.password}
               \/ /\ last'.op = "changePassword"
                  /\ Matching(users'[u].password) = {last'.input.newPassword}

\* the save of a profile update or of a login keeps the hash
C30_SaveKeepsHash ==
    (last'.op \in {"updateProfile", "login"} /\ last'.status = 200)
        => \A u \in Users : users'[u].password = users[u].password

\* C30: a user's stored password hash changes only when the password itself
\* is set (registration or password change); saving a user after a profile
\* update or a last-login update leaves the hash unchanged, so after any
\* sequence of such saves the user's current password still matches
C30_HashOnlyWhenSet ==
    /\ [](\A u \in Users : users[u].state # "none" => Matching(users[u].password) # {})
    /\ [][C30_ChangedBySetting /\ C30_SaveKeepsHash]_vars

\* a profile is saved after the password was changed, and the new password
\* still matches
C30_Witness ==
    /\ last.op = "updateProfile" /\ last.status = 200
    /\ matchPassword("p2", users["u1"].password)

====
